---------------------------- MODULE Spec2Model ----------------------------
(***************************************************************************)
(* A model of the two-body orbit engine of Hamilton (TwoBody::Orbit,       *)
(* kepler.hpp) and of its one-dimensional root finders (root1d.hpp).       *)
(*                                                                         *)
(* Numbers.  A C++ double is modelled by an exact value of the field       *)
(* Q + Q*pi, extended with +infinity, -infinity and NaN.  The value        *)
(* (r + p*pi)/d is the triple <<r, p, d>> with d > 0 and gcd(r, p, d) = 1; *)
(* <<1,0,0>> is +infinity, <<-1,0,0>> is -infinity, <<0,0,0>> is NaN.      *)
(* Every operation is exact.  An operation whose exact result is not in    *)
(* this set (the cosine of an angle that is not a multiple of pi/3 or      *)
(* pi/2, a sum with the root of a non-square, a product with pi^2) has     *)
(* no value: evaluating it is an error of the model, it never returns a    *)
(* rounded or a made-up number.  The inputs of the specifications are      *)
(* chosen so that every value the program computes from them is exact.     *)
(* Rounding of the IEEE double is therefore outside the model.             *)
(***************************************************************************)
EXTENDS Integers, Sequences, FiniteSets, TLC

VARIABLES
    orbit,      \* the Orbit object: its elements and its cached fields
    initial,    \* the Orbit as its constructor left it
    prev,       \* the Orbit as it was when the last Update was called
    lastDt,     \* the DeltaTime of the last Update
    elapsed,    \* the sum of the DeltaTime of every Update so far
    nUpdates,   \* the number of Update calls so far
    cls,        \* one call of ClassifyOrbit: its argument and its result
    nw,         \* one call of RootFind::Newton: its arguments and locals
    bs,         \* one call of RootFind::Bisect: its arguments and locals
    sc,         \* one call of RootFind::Secant: its arguments and locals
    tof,        \* one call of Orbit::DeltaTimeFromTrueAnomoly
    cv,         \* one call of Newtonian2Kepler or Kepler2Newtonian
    th,         \* the threads that call Update on one Orbit
    fn          \* one call of a function of kepler.hpp or of HString

orbitVars == <<orbit, initial, prev, lastDt, elapsed, nUpdates>>
moreVars == <<sc, tof, cv, th, fn>>
vars == <<orbitVars, cls, nw, bs, moreVars>>

\* the value of the variables a specification does not use
Idle == [pc |-> "idle"]

MoreIdle ==
    sc = Idle /\ tof = Idle /\ cv = Idle /\ th = Idle /\ fn = Idle

\* ------------------------------------------------------------------------
\* Exact numbers

RECURSIVE GCD(_, _)
GCD(a, b) == IF b = 0 THEN a ELSE GCD(b, a % b)

IAbs(n) == IF n < 0 THEN -n ELSE n

NaN == <<0, 0, 0>>
PosInf == <<1, 0, 0>>
NegInf == <<-1, 0, 0>>

\* The value that does not exist: evaluating it is an error.
OutOfDomain == CHOOSE x \in {} : TRUE

\* (r + p*pi)/d in lowest terms, for d # 0
Norm(r, p, d) ==
    LET g == GCD(GCD(IAbs(r), IAbs(p)), IAbs(d))
        s == IF d < 0 THEN -1 ELSE 1
    IN  <<(s * r) \div g, (s * p) \div g, (s * d) \div g>>

Rat(n, d) == Norm(n, 0, d)
Whole(n) == <<n, 0, 1>>
PiMul(n, d) == Norm(0, n, d)

IsNaN(x) == x = NaN
IsInf(x) == x = PosInf \/ x = NegInf
IsFinite(x) == x[3] # 0
IsRational(x) == x[3] # 0 /\ x[2] = 0
IsPiMultiple(x) == x[3] # 0 /\ x[1] = 0

\* sign of r + p*pi, from 333/106 < pi < 355/113
SignPi(r, p) ==
    IF p = 0 THEN (IF r > 0 THEN 1 ELSE IF r < 0 THEN -1 ELSE 0)
    ELSE IF p > 0
         THEN (IF 106 * r + 333 * p >= 0 THEN 1
               ELSE IF 113 * r + 355 * p <= 0 THEN -1 ELSE OutOfDomain)
         ELSE (IF 106 * r + 333 * p <= 0 THEN -1
               ELSE IF 113 * r + 355 * p >= 0 THEN 1 ELSE OutOfDomain)

\* -1, 0, 1 for a number that is not NaN
Sign(x) == IF x[3] = 0 THEN x[1] ELSE SignPi(x[1], x[2])

Neg(x) == <<-x[1], -x[2], x[3]>>

Add(x, y) ==
    IF IsNaN(x) \/ IsNaN(y) THEN NaN
    ELSE IF IsInf(x) THEN (IF IsInf(y) /\ y # x THEN NaN ELSE x)
    ELSE IF IsInf(y) THEN y
    ELSE LET g == GCD(x[3], y[3])
             a == y[3] \div g
             b == x[3] \div g
         IN  Norm(x[1] * a + y[1] * b, x[2] * a + y[2] * b, x[3] * a)

Sub(x, y) == Add(x, Neg(y))

\* The square root of a positive rational n/d that is not a square is kept
\* as the surd <<<<n, d>>>>: a finite positive number whose only exact use is
\* a product with zero.  Any other operation on it is out of domain.
Surd(n, d) == <<<<n, d>>>>
IsSurd(x) == Len(x) = 1

Mul(x, y) ==
    IF IsSurd(x) \/ IsSurd(y)
    THEN (IF x = Whole(0) \/ y = Whole(0) THEN Whole(0) ELSE OutOfDomain)
    ELSE IF IsNaN(x) \/ IsNaN(y) THEN NaN
    ELSE IF IsInf(x) \/ IsInf(y)
         THEN (IF Sign(x) * Sign(y) > 0 THEN PosInf
               ELSE IF Sign(x) * Sign(y) < 0 THEN NegInf ELSE NaN)
    ELSE IF x[2] # 0 /\ y[2] # 0 THEN OutOfDomain
    ELSE LET g == GCD(GCD(IAbs(x[1]), IAbs(x[2])), y[3])
             h == GCD(GCD(IAbs(y[1]), IAbs(y[2])), x[3])
             a == x[1] \div g
             b == x[2] \div g
             c == y[1] \div h
             d == y[2] \div h
         IN  Norm(a * c, a * d + b * c, (x[3] \div h) * (y[3] \div g))

Div(x, y) ==
    IF IsNaN(x) \/ IsNaN(y) THEN NaN
    ELSE IF IsInf(y)
         THEN (IF IsInf(x) THEN NaN ELSE Whole(0))
    ELSE IF IsInf(x)
         THEN (IF Sign(y) < 0 THEN Neg(x) ELSE x)
    ELSE IF Sign(y) = 0
         THEN (IF Sign(x) > 0 THEN PosInf
               ELSE IF Sign(x) < 0 THEN NegInf ELSE NaN)
    ELSE IF y[2] = 0
         THEN Mul(x, Norm(y[3], 0, y[1]))
    ELSE IF y[1] = 0 /\ x[1] = 0
         THEN Mul(<<x[2], 0, x[3]>>, Norm(y[3], 0, y[2]))
    ELSE OutOfDomain

\* The comparisons of the C++ double: every comparison with NaN is false.
Lt(x, y) == ~IsNaN(x) /\ ~IsNaN(y) /\ x # y /\ Sign(Sub(x, y)) < 0
Gt(x, y) == Lt(y, x)
Eq(x, y) == ~IsNaN(x) /\ ~IsNaN(y) /\ x = y
Le(x, y) == Lt(x, y) \/ Eq(x, y)
Ge(x, y) == Le(y, x)

Zero == Whole(0)
One == Whole(1)
Two == Whole(2)
PI == PiMul(1, 1)
TwoPi == PiMul(2, 1)

\* ------------------------------------------------------------------------
\* core_math: the Math namespace

Infinity == PosInf

Abs(Val) == IF Ge(Val, Zero) THEN Val ELSE Neg(Val)

Signum(Val) ==
    IF Lt(Val, Zero) THEN Whole(-1)
    ELSE IF Eq(Val, Zero) THEN Zero
    ELSE One

Square(Val) == Mul(Val, Val)
Cube(Val) == Mul(Val, Mul(Val, Val))

\* the natural number whose square (cube) is n; none: out of domain
IsSquare(n) == \E k \in 0..n : k * k = n
ISqrt(n) == CHOOSE k \in 0..n : k * k = n
ICbrt(n) == CHOOSE k \in 0..n : k * k * k = n

Sqrt(Val) ==
    IF IsNaN(Val) THEN NaN
    ELSE IF Val = PosInf THEN PosInf
    ELSE IF Lt(Val, Zero) THEN NaN
    ELSE IF IsRational(Val)
         THEN (IF IsSquare(Val[1]) /\ IsSquare(Val[3])
               THEN Norm(ISqrt(Val[1]), 0, ISqrt(Val[3]))
               ELSE Surd(Val[1], Val[3]))
    ELSE OutOfDomain

Cbrt(Val) ==
    IF IsNaN(Val) \/ IsInf(Val) THEN Val
    ELSE IF IsRational(Val)
         THEN Norm(Sign(Val) * ICbrt(IAbs(Val[1])), 0, ICbrt(Val[3]))
    ELSE OutOfDomain

\* an angle k*pi/12 as k mod 24; any other angle is out of domain
Twelfths(Val) ==
    IF IsPiMultiple(Val) /\ 12 % Val[3] = 0
    THEN (Val[2] * (12 \div Val[3])) % 24
    ELSE OutOfDomain

Sin(Val) ==
    IF ~IsFinite(Val) THEN NaN
    ELSE LET k == Twelfths(Val)
         IN  CASE k \in {0, 12} -> Zero
               [] k \in {2, 10} -> Rat(1, 2)
               [] k = 6 -> One
               [] k \in {14, 22} -> Rat(-1, 2)
               [] k = 18 -> Whole(-1)
               [] OTHER -> OutOfDomain

Cos(Val) ==
    IF ~IsFinite(Val) THEN NaN
    ELSE LET k == Twelfths(Val)
         IN  CASE k = 0 -> One
               [] k \in {4, 20} -> Rat(1, 2)
               [] k \in {6, 18} -> Zero
               [] k \in {8, 16} -> Rat(-1, 2)
               [] k = 12 -> Whole(-1)
               [] OTHER -> OutOfDomain

Tan(Val) ==
    IF ~IsFinite(Val) THEN NaN
    ELSE LET k == Twelfths(Val)
         IN  CASE k \in {0, 12} -> Zero
               [] k \in {3, 15} -> One
               [] k \in {9, 21} -> Whole(-1)
               [] OTHER -> OutOfDomain

Atan(X) ==
    IF IsNaN(X) THEN NaN
    ELSE IF X = PosInf THEN PiMul(1, 2)
    ELSE IF X = NegInf THEN PiMul(-1, 2)
    ELSE IF X = Zero THEN Zero
    ELSE IF X = One THEN PiMul(1, 4)
    ELSE IF X = Whole(-1) THEN PiMul(-1, 4)
    ELSE OutOfDomain

Atan2(Y, X) ==
    IF IsNaN(Y) \/ IsNaN(X) THEN NaN
    ELSE IF ~IsFinite(Y) \/ ~IsFinite(X) THEN OutOfDomain
    ELSE LET sy == Sign(Y)
             sx == Sign(X)
         IN  IF sy = 0 THEN (IF sx >= 0 THEN Zero ELSE PI)
             ELSE IF sx = 0 THEN PiMul(sy, 2)
             ELSE IF Abs(Y) = Abs(X)
                  THEN (IF sx > 0 THEN PiMul(sy, 4) ELSE PiMul(3 * sy, 4))
             ELSE OutOfDomain

Acos(Val) ==
    IF IsNaN(Val) THEN NaN
    ELSE IF Gt(Abs(Val), One) THEN NaN
    ELSE IF Val = One THEN Zero
    ELSE IF Val = Rat(1, 2) THEN PiMul(1, 3)
    ELSE IF Val = Zero THEN PiMul(1, 2)
    ELSE IF Val = Rat(-1, 2) THEN PiMul(2, 3)
    ELSE IF Val = Whole(-1) THEN PI
    ELSE OutOfDomain

Sinh(Val) ==
    IF IsNaN(Val) \/ IsInf(Val) THEN Val
    ELSE IF Val = Zero THEN Zero
    ELSE OutOfDomain

Cosh(Val) ==
    IF IsNaN(Val) THEN NaN
    ELSE IF IsInf(Val) THEN PosInf
    ELSE IF Val = Zero THEN One
    ELSE OutOfDomain

Asinh(Val) ==
    IF IsNaN(Val) \/ IsInf(Val) THEN Val
    ELSE IF Val = Zero THEN Zero
    ELSE OutOfDomain

\* floor of a rational
Floor(Val) ==
    IF IsNaN(Val) \/ IsInf(Val) THEN Val
    ELSE IF IsRational(Val) THEN Whole(Val[1] \div Val[3])
    ELSE OutOfDomain

\* the quotient rounded towards zero
Trunc(Val) == IF Lt(Val, Zero) THEN Neg(Floor(Neg(Val))) ELSE Floor(Val)

\* fmod: Val - n * Divisor, n the quotient rounded towards zero
Fmod(Val, Divisor) ==
    IF IsNaN(Val) \/ IsNaN(Divisor) \/ IsInf(Val) \/ Divisor = Zero THEN NaN
    ELSE IF IsInf(Divisor) THEN Val
    ELSE Sub(Val, Mul(Trunc(Div(Val, Divisor)), Divisor))

\* ------------------------------------------------------------------------
\* kepler.hpp: Keplerian elements and their classification

\* struct KeplerianElements, every field at its default
DefaultElements ==
    [SemiParameter |-> Zero, SemiMajorAxis |-> Zero, Eccentricity |-> Zero,
     Inclination |-> Zero, Node |-> Zero, ArgumentPerigee |-> Zero,
     TrueAnomoly |-> Zero, TrueLongitudeOfPeriapsis |-> Zero,
     ArgumentLatitude |-> Zero, TrueLongitude |-> Zero,
     GravitationalParameter |-> Zero]

IsValid(Elements) == Gt(Elements.SemiMajorAxis, Zero)
IsClosed(Elements) == Lt(Elements.Eccentricity, One)
IsCircular(Elements) == Eq(Elements.Eccentricity, Zero)
IsParabolic(Elements) == Eq(Elements.Eccentricity, One)
IsHyperbolic(Elements) == Gt(Elements.Eccentricity, One)

IsEquatorial(Elements) ==
    Eq(Elements.Inclination, Zero) \/ Eq(Elements.Inclination, Whole(180))

ClassifyOrbit(Elements) ==
    IF ~IsValid(Elements) THEN "INVALID"
    ELSE IF IsHyperbolic(Elements) THEN "HYPERBOLIC"
    ELSE IF IsParabolic(Elements) THEN "PARABOLIC"
    ELSE IF Gt(Elements.Eccentricity, Zero)
         THEN (IF Eq(Elements.Inclination, Zero)
               THEN "ELLIPTICAL_EQUATORIAL" ELSE "ELLIPTICAL_INCLINED")
    ELSE (IF Eq(Elements.Inclination, Zero)
          THEN "CIRCULAR_EQUATORIAL" ELSE "CIRCULAR_INCLINED")

CalculatePeriod(Elements) ==
    IF IsValid(Elements) /\ IsClosed(Elements)
    THEN Mul(TwoPi, Sqrt(Div(Cube(Elements.SemiMajorAxis),
                             Elements.GravitationalParameter)))
    ELSE Infinity

CalculateMeanRadialPeriod(Elements) ==
    IF IsClosed(Elements)
    THEN Sqrt(Div(Cube(Elements.SemiMajorAxis), Elements.GravitationalParameter))
    ELSE IF IsHyperbolic(Elements)
    THEN Sqrt(Div(Neg(Cube(Elements.SemiMajorAxis)),
                  Elements.GravitationalParameter))
    ELSE Mul(Two, Sqrt(Div(Cube(Elements.SemiParameter),
                           Elements.GravitationalParameter)))

CalculateRadius(Elements) ==
    Div(Elements.SemiParameter,
        Add(One, Mul(Elements.Eccentricity, Cos(Elements.TrueAnomoly))))

TrueToEccentricAnomoly(TrueAnomoly, Eccentricity) ==
    IF Lt(Eccentricity, One)
    THEN LET CosNu == Cos(TrueAnomoly)
             SinNu == Sin(TrueAnomoly)
             Denominator == Add(One, Mul(Eccentricity, CosNu))
             SinE == Div(Mul(SinNu, Sqrt(Sub(One, Square(Eccentricity)))),
                         Denominator)
             CosE == Div(Add(Eccentricity, CosNu), Denominator)
         IN  Atan2(SinE, CosE)
    ELSE IF Eq(Eccentricity, One)
    THEN Tan(Mul(Rat(1, 2), TrueAnomoly))
    ELSE Asinh(Div(Mul(Sin(TrueAnomoly), Sqrt(Sub(Square(Eccentricity), One))),
                   Add(One, Mul(Eccentricity, Cos(TrueAnomoly)))))

EccentricToTrueAnomoly(Anomoly, Eccentricity) ==
    IF Lt(Eccentricity, One)
    THEN LET CosE == Cos(Anomoly)
         IN  Acos(Div(Sub(CosE, Eccentricity),
                      Sub(One, Mul(Eccentricity, CosE))))
    ELSE IF Eq(Eccentricity, One)
    THEN Mul(Two, Atan(Anomoly))
    ELSE LET CoshH == Cosh(Anomoly)
         IN  Acos(Div(Sub(CoshH, Eccentricity),
                      Sub(One, Mul(Eccentricity, CoshH))))

EccentricToMeanAnomoly(Anomoly, Eccentricity) ==
    IF Lt(Eccentricity, One)
    THEN Sub(Anomoly, Mul(Eccentricity, Sin(Anomoly)))
    ELSE IF Gt(Eccentricity, One)
    THEN Sub(Mul(Eccentricity, Sinh(Anomoly)), Anomoly)
    ELSE Add(Anomoly, Div(Cube(Anomoly), Whole(3)))

\* ------------------------------------------------------------------------
\* TwoBody::Orbit

\* struct DeltaTimeAnomoly, value-initialised (DeltaTimeAnomoly{})
DefaultDeltaTimeAnomoly ==
    [MeanAnomoly |-> Zero, EccentricAnomoly |-> Zero, NumberRevolutions |-> Zero]

\* Orbit::Orbit(const KeplerianElements&): the member initialisers, in order
NewOrbit(Elements) ==
    LET Classification == ClassifyOrbit(Elements)
        EccentricAnomoly ==
            TrueToEccentricAnomoly(Elements.TrueAnomoly, Elements.Eccentricity)
        MeanRadialPeriod == CalculateMeanRadialPeriod(Elements)
    IN  [mElements |-> Elements,
         mClassification |-> Classification,
         mEccentricAnomoly |-> EccentricAnomoly,
         mMeanRadialPeriod |-> MeanRadialPeriod,
         mPeriod |-> IF IsClosed(Elements) THEN Mul(TwoPi, MeanRadialPeriod)
                     ELSE Infinity,
         mRadius |-> CalculateRadius(Elements),
         mMeanAnomoly |->
             EccentricToMeanAnomoly(EccentricAnomoly, Elements.Eccentricity)]

\* Orbit::AnomolyFromDeltaTime
AnomolyFromDeltaTime(o, DeltaTime) ==
    IF o.mClassification = "INVALID" THEN DefaultDeltaTimeAnomoly
    ELSE IF IsCircular(o.mElements)
    THEN [DefaultDeltaTimeAnomoly EXCEPT
            !.EccentricAnomoly = Fmod(DeltaTime, o.mPeriod),
            !.NumberRevolutions = Floor(Div(DeltaTime, o.mPeriod))]
    ELSE IF IsClosed(o.mElements) THEN DefaultDeltaTimeAnomoly
    ELSE IF o.mClassification = "HYPERBOLIC" THEN DefaultDeltaTimeAnomoly
    ELSE LET A == Mul(Rat(3, 2),
                      Sub(Div(DeltaTime, o.mMeanRadialPeriod), o.mMeanAnomoly))
             B == Cbrt(Add(A, Sqrt(Add(Square(A), One))))
             EccentricAnomoly == Mul(Two, Atan(Sub(B, Div(One, B))))
         IN  [DefaultDeltaTimeAnomoly EXCEPT
                !.MeanAnomoly =
                    EccentricToMeanAnomoly(EccentricAnomoly,
                                           o.mElements.Eccentricity),
                !.EccentricAnomoly = EccentricAnomoly]

\* Update with the true anomaly written to the wrong element
UpdateOrbit_WrongElement(o, DeltaTime) ==
    LET Anomoly == AnomolyFromDeltaTime(o, DeltaTime)
    IN  IF IsCircular(o.mElements)
        THEN [o EXCEPT !.mElements.TrueLongitude = Anomoly.EccentricAnomoly]
        ELSE LET TrueAnomoly ==
                     EccentricToTrueAnomoly(Anomoly.EccentricAnomoly,
                                            o.mElements.Eccentricity)
                 Elements == [o.mElements EXCEPT !.Eccentricity = TrueAnomoly]
             IN  [o EXCEPT !.mMeanAnomoly = Anomoly.MeanAnomoly,
                           !.mEccentricAnomoly = Anomoly.EccentricAnomoly,
                           !.mElements = Elements,
                           !.mRadius = CalculateRadius(Elements)]

\* Update that leaves the cached radius as it was
UpdateOrbit_StaleRadius(o, DeltaTime) ==
    LET Anomoly == AnomolyFromDeltaTime(o, DeltaTime)
    IN  IF IsCircular(o.mElements)
        THEN [o EXCEPT !.mElements.TrueLongitude = Anomoly.EccentricAnomoly]
        ELSE [o EXCEPT !.mMeanAnomoly = Anomoly.MeanAnomoly,
                       !.mEccentricAnomoly = Anomoly.EccentricAnomoly,
                       !.mElements.TrueAnomoly =
                           EccentricToTrueAnomoly(Anomoly.EccentricAnomoly,
                                                  o.mElements.Eccentricity)]

\* Update whose circular branch falls through to the anomaly assignments
UpdateOrbit_FallsThrough(o, DeltaTime) ==
    LET Anomoly == AnomolyFromDeltaTime(o, DeltaTime)
        Elements ==
            [o.mElements EXCEPT
               !.TrueLongitude = IF IsCircular(o.mElements)
                                 THEN Anomoly.EccentricAnomoly ELSE @,
               !.TrueAnomoly =
                   EccentricToTrueAnomoly(Anomoly.EccentricAnomoly,
                                          o.mElements.Eccentricity)]
    IN  [o EXCEPT !.mMeanAnomoly = Anomoly.MeanAnomoly,
                  !.mEccentricAnomoly = Anomoly.EccentricAnomoly,
                  !.mElements = Elements,
                  !.mRadius = CalculateRadius(Elements)]

\* Orbit::Update: the orbit after the call
UpdateOrbit(o, DeltaTime) ==
    LET Anomoly == AnomolyFromDeltaTime(o, DeltaTime)
    IN  IF IsCircular(o.mElements)
        THEN [o EXCEPT !.mElements.TrueLongitude = Anomoly.EccentricAnomoly]
        ELSE LET TrueAnomoly ==
                     EccentricToTrueAnomoly(Anomoly.EccentricAnomoly,
                                            o.mElements.Eccentricity)
                 Elements == [o.mElements EXCEPT !.TrueAnomoly = TrueAnomoly]
             IN  [o EXCEPT !.mMeanAnomoly = Anomoly.MeanAnomoly,
                           !.mEccentricAnomoly = Anomoly.EccentricAnomoly,
                           !.mElements = Elements,
                           !.mRadius = CalculateRadius(Elements)]

\* ------------------------------------------------------------------------
\* The inputs of the orbit specification

\* how many Update calls one run makes
MaxUpdates == 3

SemiMajorAxes == {Whole(-1), Zero, One, Whole(4)}
\* Newtonian2Kepler gives a parabola an infinite semi-major axis
SemiMajorAxesOf(e) == IF e = One THEN {Zero, One, PosInf} ELSE SemiMajorAxes
GravitationalParameters == {One, Whole(4)}
Eccentricities == {Zero, Rat(3, 5), One, Rat(5, 4)}
Inclinations == {Zero, PiMul(1, 2)}
TrueLongitudes == {Zero, PiMul(1, 2)}

\* the true anomalies at which the anomaly conversions are exact
TrueAnomolies(Eccentricity) ==
    IF Eccentricity = Zero THEN {Zero, PiMul(1, 2), PI}
    ELSE IF Eccentricity = One THEN {Zero, PiMul(1, 2)}
    ELSE {Zero, PI}

\* p = a (1 - e^2); a parabola has its own semiparameter
SemiParameterOf(a, e) ==
    IF e = One THEN One ELSE Mul(a, Sub(One, Square(e)))

ElementSets ==
    UNION { { [DefaultElements EXCEPT
                 !.SemiMajorAxis = a, !.GravitationalParameter = mu,
                 !.Eccentricity = e, !.Inclination = i,
                 !.SemiParameter = SemiParameterOf(a, e),
                 !.TrueAnomoly = nu, !.TrueLongitude = l] :
              a \in SemiMajorAxesOf(e), mu \in GravitationalParameters,
              i \in Inclinations, nu \in TrueAnomolies(e),
              l \in TrueLongitudes } :
            e \in Eccentricities }

\* DeltaTime of an Update, in seconds: quarter, half and whole periods of the
\* closed orbits above
DeltaTimes ==
    {Zero, PiMul(1, 2), PiMul(4, 1), PiMul(8, 1), PiMul(96, 1)}

\* On a parabola Barker's equation has an exact solution for the DeltaTime
\* that makes A zero
DeltaTimesOf(o) ==
    IF o.mClassification = "PARABOLIC"
    THEN {Mul(o.mMeanRadialPeriod, o.mMeanAnomoly)}
    ELSE DeltaTimes

\* ------------------------------------------------------------------------
\* The orbit specification: an Orbit is built, then updated

InitOrbit ==
    /\ \E Elements \in ElementSets : orbit = NewOrbit(Elements)
    /\ initial = orbit
    /\ prev = orbit
    /\ lastDt = Zero
    /\ elapsed = Zero
    /\ nUpdates = 0

Update ==
    /\ nUpdates < MaxUpdates
    /\ \E DeltaTime \in DeltaTimesOf(orbit) :
         /\ orbit' = UpdateOrbit(orbit, DeltaTime)
         /\ lastDt' = DeltaTime
         /\ elapsed' = Add(elapsed, DeltaTime)
    /\ prev' = orbit
    /\ nUpdates' = nUpdates + 1
    /\ UNCHANGED <<initial, cls, nw, bs, moreVars>>

Init ==
    /\ InitOrbit
    /\ cls = Idle /\ nw = Idle /\ bs = Idle /\ MoreIdle

Next == Update

Spec == Init /\ [][Next]_vars

\* the orbit variables of a specification that builds no Orbit
NoOrbit ==
    /\ orbit = Idle
    /\ initial = Idle
    /\ prev = Idle
    /\ lastDt = Zero
    /\ elapsed = Zero
    /\ nUpdates = 0

\* ------------------------------------------------------------------------
\* The classification specification: ClassifyOrbit is called on one set of
\* elements

ClassifyInclinations == {Zero, PiMul(1, 2), PI, Whole(90), Whole(180)}

ClassifyElementSets ==
    { [DefaultElements EXCEPT
         !.SemiMajorAxis = a,
         !.Eccentricity = e,
         !.Inclination = i,
         !.GravitationalParameter = mu] :
      a \in SemiMajorAxes,
      e \in Eccentricities,
      i \in ClassifyInclinations,
      mu \in GravitationalParameters }

InitClassify ==
    /\ \E Elements \in ClassifyElementSets :
         cls = [pc |-> "call", Elements |-> Elements, Result |-> "none"]
    /\ NoOrbit
    /\ nw = Idle /\ bs = Idle /\ MoreIdle

Classify ==
    /\ cls.pc = "call"
    /\ cls' = [cls EXCEPT !.pc = "done",
                          !.Result = ClassifyOrbit(cls.Elements)]
    /\ UNCHANGED <<orbitVars, nw, bs, moreVars>>

NextClassify == Classify

SpecClassify == InitClassify /\ [][NextClassify]_vars

\* ------------------------------------------------------------------------
\* numerics/root1d.hpp

\* the functions of the root finder tests
F1(X) == Sub(Square(X), Two)
D1(X) == Mul(Two, X)
F2(X) == Add(Square(X), Two)
F3(X, A) == Sub(Square(X), A)
D3(X, A) == Add(Mul(Two, X), Mul(Zero, A))

\* Function(X) and Derivative(X) of a call, F3 and D3 bound to A = 4
Function(Name, X) ==
    CASE Name = "F1" -> F1(X)
      [] Name = "F2" -> F2(X)
      [] Name = "F3" -> F3(X, Whole(4))

Derivative(Name, X) ==
    CASE Name = "F1" -> D1(X)
      [] Name = "F2" -> D1(X)
      [] Name = "F3" -> D3(X, Whole(4))

Functions == {"F1", "F2", "F3"}

DefaultRootFinderResult ==
    [X |-> Zero, Delta |-> Zero, Iterations |-> 0, ExitCode |-> "OTHER_ERROR"]

\* Newton: the step taken from the initial guess
NewtonFirstDelta(Name, Guess) ==
    Div(Function(Name, Guess), Derivative(Name, Guess))

\* Newton: the step computed at the end of a pass of the loop
NewtonNextDelta(Name, X, Parameters) ==
    Div(Mul(Parameters.Relaxation, Function(Name, X)), Derivative(Name, X))

\* Newton: the convergence test of a pass
NewtonConverged(Delta, Parameters) ==
    Lt(Abs(Delta), Parameters.Tolerance)

NewtonFailureCode_NoRelaxationCheck(Parameters) ==
    IF Lt(Parameters.Tolerance, Zero) \/ Parameters.MaxIterations < 1
    THEN "INVALID_PARAMETERS"
    ELSE "MAX_ITERATIONS_EXCEEDED"

\* Newton: the exit code once the loop has run out
NewtonFailureCode(Parameters) ==
    IF \/ Lt(Parameters.Tolerance, Zero)
       \/ Parameters.MaxIterations < 1
       \/ Lt(Parameters.Relaxation, Zero)
    THEN "INVALID_PARAMETERS"
    ELSE "MAX_ITERATIONS_EXCEEDED"

BisectEntry_NoBracketCheck(F1v, F2v, Width) ==
    IF Eq(F1v, Zero) THEN "ROOT_AT_X1"
    ELSE IF Eq(F2v, Zero) THEN "ROOT_AT_X2"
    ELSE IF Le(Width, Zero) THEN "NO_WIDTH"
    ELSE "SEARCH"

BisectEntry_NoWidthCheck(F1v, F2v, Width) ==
    IF Eq(F1v, Zero) THEN "ROOT_AT_X1"
    ELSE IF Eq(F2v, Zero) THEN "ROOT_AT_X2"
    ELSE IF Gt(Mul(F1v, F2v), Zero) THEN "NO_BRACKET"
    ELSE "SEARCH"

\* Bisect: what the checks before the loop decide, in their order
BisectEntry(F1v, F2v, Width) ==
    IF Eq(F1v, Zero) THEN "ROOT_AT_X1"
    ELSE IF Eq(F2v, Zero) THEN "ROOT_AT_X2"
    ELSE IF Gt(Mul(F1v, F2v), Zero) THEN "NO_BRACKET"
    ELSE IF Le(Width, Zero) THEN "NO_WIDTH"
    ELSE "SEARCH"

\* the choice of the half with the signs of the two halves exchanged
BisectRootInLowerHalf_Inverted(F1v, F3v) == Gt(Mul(F1v, F3v), Zero)

\* Bisect: the half of the interval that is kept, for F3v # 0
BisectRootInLowerHalf(F1v, F3v) == Lt(Mul(F1v, F3v), Zero)

\* the exit code once the loop has run out, when the branch for exceeded
\* iterations assigns nothing
BisectFailureCode_Unset(Parameters) ==
    IF \/ Lt(Parameters.Tolerance, Zero)
       \/ Parameters.MaxIterations < 1
    THEN "INVALID_PARAMETERS"
    ELSE DefaultRootFinderResult.ExitCode

\* Bisect: the exit code once the loop has run out
BisectFailureCode(Parameters) ==
    IF \/ Lt(Parameters.Tolerance, Zero)
       \/ Parameters.MaxIterations < 1
    THEN "INVALID_PARAMETERS"
    ELSE "MAX_ITERATIONS_EXCEEDED"

\* ------------------------------------------------------------------------
\* The Newton specification: one call of RootFind::Newton, a pass of its
\* loop at a time.  steps records every step applied to X: the X it was
\* applied at, the step, and the pass that applied it (-1 after the loop).

MaxNewtonIterations == 2

NewtonGuesses == {One, Two}
NewtonTolerances == {Whole(-1), Zero, Rat(1, 10), One}
NewtonRelaxations == {Whole(-1), One, Two}
NewtonParameterSets ==
    [Tolerance : NewtonTolerances,
     MaxIterations : -1 .. MaxNewtonIterations,
     Relaxation : NewtonRelaxations]

InitNewton ==
    /\ \E Name \in Functions, Guess \in NewtonGuesses,
          Parameters \in NewtonParameterSets :
         nw = [pc |-> "call", Function |-> Name, Guess |-> Guess,
               Parameters |-> Parameters, Index |-> 0,
               Result |-> DefaultRootFinderResult, steps |-> <<>>,
               evals |-> <<>>]
    /\ NoOrbit
    /\ cls = Idle /\ bs = Idle /\ MoreIdle

NewtonCall ==
    /\ nw.pc = "call"
    /\ nw' = [nw EXCEPT
                !.pc = "loop",
                !.Result.X = nw.Guess,
                !.Result.Delta = NewtonFirstDelta(nw.Function, nw.Guess),
                !.evals = <<nw.Guess>>]
    /\ UNCHANGED <<orbitVars, cls, bs, moreVars>>

NewtonPass ==
    /\ nw.pc = "loop"
    /\ nw.Index < nw.Parameters.MaxIterations
    /\ LET X == Sub(nw.Result.X, nw.Result.Delta)
           step == [X |-> nw.Result.X, Delta |-> nw.Result.Delta,
                    Pass |-> nw.Index]
       IN  IF NewtonConverged(nw.Result.Delta, nw.Parameters)
           THEN nw' = [nw EXCEPT
                         !.pc = "done",
                         !.Result.X = X,
                         !.Result.ExitCode = "SUCCESS",
                         !.Result.Iterations = nw.Index,
                         !.steps = Append(nw.steps, step)]
           ELSE nw' = [nw EXCEPT
                         !.Result.X = X,
                         !.Result.Delta =
                             NewtonNextDelta(nw.Function, X, nw.Parameters),
                         !.Index = nw.Index + 1,
                         !.steps = Append(nw.steps, step),
                         !.evals = Append(nw.evals, X)]
    /\ UNCHANGED <<orbitVars, cls, bs, moreVars>>

NewtonExit ==
    /\ nw.pc = "loop"
    /\ ~(nw.Index < nw.Parameters.MaxIterations)
    /\ nw' = [nw EXCEPT
                !.pc = "done",
                !.Result.X = Sub(nw.Result.X, nw.Result.Delta),
                !.Result.Iterations = nw.Parameters.MaxIterations,
                !.Result.ExitCode = NewtonFailureCode(nw.Parameters),
                !.steps = Append(nw.steps,
                                 [X |-> nw.Result.X,
                                  Delta |-> nw.Result.Delta, Pass |-> -1])]
    /\ UNCHANGED <<orbitVars, cls, bs, moreVars>>

NextNewton == NewtonCall \/ NewtonPass \/ NewtonExit

SpecNewton == InitNewton /\ [][NextNewton]_vars

\* ------------------------------------------------------------------------
\* The bisection specification: one call of RootFind::Bisect, a pass of its
\* loop at a time.  evals records every point Function was called at,
\* passes counts the passes of the loop that were entered.

MaxBisectIterations == 2

BisectBounds == {Zero, One, Two, Whole(3)}
BisectTolerances == {Whole(-1), Rat(1, 10), One}
BisectParameterSets ==
    [Tolerance : BisectTolerances,
     MaxIterations : -1 .. MaxBisectIterations]

InitBisect ==
    /\ \E Name \in Functions, X1 \in BisectBounds, X2 \in BisectBounds,
          Parameters \in BisectParameterSets :
         bs = [pc |-> "call", Function |-> Name,
               Lower |-> X1, Upper |-> X2, Parameters |-> Parameters,
               X1 |-> X1, X2 |-> X2, F1 |-> Zero, F2 |-> Zero, F3 |-> Zero,
               Index |-> 0, Result |-> DefaultRootFinderResult,
               evals |-> <<>>, passes |-> 0]
    /\ NoOrbit
    /\ cls = Idle /\ nw = Idle /\ MoreIdle

BisectCall ==
    /\ bs.pc = "call"
    /\ LET F1v == Function(bs.Function, bs.X1)
           F2v == Function(bs.Function, bs.X2)
           Mid == Mul(Rat(1, 2), Add(bs.X1, bs.X2))
           Width == Sub(bs.X2, bs.X1)
           Entry == BisectEntry(F1v, F2v, Width)
           entered == [bs EXCEPT !.F1 = F1v, !.F2 = F2v,
                                 !.evals = <<bs.X1, bs.X2>>]
           Returned(X, ExitCode) ==
               [entered EXCEPT
                  !.pc = "done",
                  !.Result = [DefaultRootFinderResult EXCEPT
                                !.X = X, !.Delta = Width,
                                !.ExitCode = ExitCode]]
       IN  CASE Entry = "ROOT_AT_X1" -> bs' = Returned(bs.X1, "SUCCESS")
             [] Entry = "ROOT_AT_X2" -> bs' = Returned(bs.X2, "SUCCESS")
             [] Entry = "NO_BRACKET" -> bs' = Returned(Mid, "INVALID_INTERVAL")
             [] Entry = "NO_WIDTH" -> bs' = Returned(Mid, "INVALID_INTERVAL")
             [] Entry = "SEARCH" ->
                  bs' = [entered EXCEPT
                           !.pc = "loop",
                           !.Result = [DefaultRootFinderResult EXCEPT
                                         !.X = Mid, !.Delta = Width],
                           !.F3 = Function(bs.Function, Mid),
                           !.evals = <<bs.X1, bs.X2, Mid>>]
    /\ UNCHANGED <<orbitVars, cls, nw, moreVars>>

BisectPass ==
    /\ bs.pc = "loop"
    /\ bs.Index < bs.Parameters.MaxIterations
    /\ IF Eq(bs.F3, Zero)
       THEN bs' = [bs EXCEPT
                     !.pc = "done",
                     !.Result.Delta = Mul(Sub(bs.X2, bs.X1), Rat(1, 2)),
                     !.Result.ExitCode = "SUCCESS",
                     !.Result.Iterations = bs.Index,
                     !.passes = bs.passes + 1]
       ELSE LET Left == BisectRootInLowerHalf(bs.F1, bs.F3)
                X1 == IF Left THEN bs.X1 ELSE bs.Result.X
                X2 == IF Left THEN bs.Result.X ELSE bs.X2
                halved == [bs EXCEPT
                             !.X1 = X1,
                             !.X2 = X2,
                             !.F1 = IF Left THEN bs.F1 ELSE bs.F3,
                             !.F2 = IF Left THEN bs.F3 ELSE bs.F2,
                             !.Result.X = Mul(Rat(1, 2), Add(X1, X2)),
                             !.Result.Delta = Sub(X2, X1),
                             !.passes = bs.passes + 1]
            IN  IF Lt(Abs(halved.Result.Delta), bs.Parameters.Tolerance)
                THEN bs' = [halved EXCEPT
                              !.pc = "done",
                              !.Result.ExitCode = "SUCCESS",
                              !.Result.Iterations = bs.Index]
                ELSE bs' = [halved EXCEPT
                              !.F3 = Function(bs.Function, halved.Result.X),
                              !.Index = bs.Index + 1,
                              !.evals = Append(bs.evals, halved.Result.X)]
    /\ UNCHANGED <<orbitVars, cls, nw, moreVars>>

BisectExit ==
    /\ bs.pc = "loop"
    /\ ~(bs.Index < bs.Parameters.MaxIterations)
    /\ bs' = [bs EXCEPT
                !.pc = "done",
                !.Result.Iterations = bs.Parameters.MaxIterations,
                !.Result.ExitCode = BisectFailureCode(bs.Parameters)]
    /\ UNCHANGED <<orbitVars, cls, nw, moreVars>>

NextBisect == BisectCall \/ BisectPass \/ BisectExit

SpecBisect == InitBisect /\ [][NextBisect]_vars

\* ------------------------------------------------------------------------
\* The secant specification: one call of RootFind::Secant, a pass of its
\* loop at a time.  evals records every point Function was called at,
\* passes counts the passes of the loop that were entered.

\* the functions given to Secant: a constant, and a line with its root at 1
SecantFunctions == {"Flat", "Line"}

SecantFunction(Name, X) ==
    CASE Name = "Flat" -> One
      [] Name = "Line" -> Sub(X, One)

\* Secant: the second point, next to the guess
SecantSecondPoint(Xp) ==
    IF Ge(Xp, Zero)
    THEN Add(Mul(Xp, Add(One, Rat(1, 10000))), Rat(1, 10000))
    ELSE Sub(Mul(Xp, Add(One, Rat(1, 10000))), Rat(1, 10000))

\* Secant: the step from the two most recent points
SecantDelta(X, Xp, Yn, Yp, Parameters) ==
    Mul(Mul(Div(Sub(X, Xp), Sub(Yn, Yp)), Yn), Parameters.Relaxation)

SecantIllPosed_Never(Yn, Yp) == FALSE

SecantLoopRuns_OneMore(Index, Parameters) ==
    Index <= Parameters.MaxIterations

\* Secant: the condition of the loop
SecantLoopRuns(Index, Parameters) ==
    Index < Parameters.MaxIterations

\* Secant: the test for a flat secant
SecantIllPosed(Yn, Yp) == Eq(Sub(Yn, Yp), Zero)

\* Secant: the exit code once the loop has run out
SecantFailureCode(Parameters) ==
    IF \/ Lt(Parameters.Tolerance, Zero)
       \/ Parameters.MaxIterations < 1
       \/ Lt(Parameters.Relaxation, Zero)
    THEN "INVALID_PARAMETERS"
    ELSE "MAX_ITERATIONS_EXCEEDED"

MaxSecantIterations == 3

SecantGuesses == {Whole(-1), Zero, One}
SecantParameterSets ==
    [Tolerance : NewtonTolerances,
     MaxIterations : -1 .. MaxSecantIterations,
     Relaxation : NewtonRelaxations]

InitSecant ==
    /\ \E Name \in SecantFunctions, Guess \in SecantGuesses,
          Parameters \in SecantParameterSets :
         sc = [pc |-> "call", Function |-> Name, Guess |-> Guess,
               Parameters |-> Parameters, Index |-> 0,
               Xp |-> Zero, Yp |-> Zero, Yn |-> Zero,
               Result |-> DefaultRootFinderResult,
               evals |-> <<>>, passes |-> 0]
    /\ NoOrbit
    /\ cls = Idle /\ nw = Idle /\ bs = Idle
    /\ tof = Idle /\ cv = Idle /\ th = Idle /\ fn = Idle

SecantCall ==
    /\ sc.pc = "call"
    /\ LET Xp == sc.Guess
           X == SecantSecondPoint(Xp)
           Yp == SecantFunction(sc.Function, Xp)
           Yn == SecantFunction(sc.Function, X)
       IN  sc' = [sc EXCEPT
                    !.pc = "loop",
                    !.Xp = Xp, !.Yp = Yp, !.Yn = Yn,
                    !.Result.X = X,
                    !.Result.Delta =
                        SecantDelta(X, Xp, Yn, Yp, sc.Parameters),
                    !.evals = <<Xp, X>>]
    /\ UNCHANGED <<orbitVars, cls, nw, bs, tof, cv, th, fn>>

SecantPass ==
    /\ sc.pc = "loop"
    /\ SecantLoopRuns(sc.Index, sc.Parameters)
    /\ LET X == Sub(sc.Result.X, sc.Result.Delta)
           Returned(ExitCode) ==
               [sc EXCEPT !.pc = "done",
                          !.Result.Iterations = sc.Index,
                          !.Result.ExitCode = ExitCode,
                          !.Result.X = X,
                          !.passes = sc.passes + 1]
       IN  IF Lt(Abs(sc.Result.Delta), sc.Parameters.Tolerance)
           THEN sc' = Returned("SUCCESS")
           ELSE IF SecantIllPosed(sc.Yn, sc.Yp)
           THEN sc' = Returned("ILL_POSED")
           ELSE LET Yn == SecantFunction(sc.Function, X)
                IN  sc' = [sc EXCEPT
                             !.Xp = sc.Result.X,
                             !.Result.X = X,
                             !.Yp = sc.Yn,
                             !.Yn = Yn,
                             !.Result.Delta =
                                 SecantDelta(X, sc.Result.X, Yn, sc.Yn,
                                             sc.Parameters),
                             !.Index = sc.Index + 1,
                             !.evals = Append(sc.evals, X),
                             !.passes = sc.passes + 1]
    /\ UNCHANGED <<orbitVars, cls, nw, bs, tof, cv, th, fn>>

SecantExit ==
    /\ sc.pc = "loop"
    /\ ~SecantLoopRuns(sc.Index, sc.Parameters)
    /\ sc' = [sc EXCEPT
                !.pc = "done",
                !.Result.Iterations = sc.Parameters.MaxIterations,
                !.Result.ExitCode = SecantFailureCode(sc.Parameters)]
    /\ UNCHANGED <<orbitVars, cls, nw, bs, tof, cv, th, fn>>

NextSecant == SecantCall \/ SecantPass \/ SecantExit

SpecSecant == InitSecant /\ [][NextSecant]_vars

\* ------------------------------------------------------------------------
\* The root finder specification: one call of Newton, Bisect or Secant

InitRootFind == InitNewton \/ InitBisect \/ InitSecant

NextRootFind == NextNewton \/ NextBisect \/ NextSecant

SpecRootFind == InitRootFind /\ [][NextRootFind]_vars

\* ------------------------------------------------------------------------
\* The query specification: an Orbit is built, then asked for the time of
\* flight to a true anomaly (Orbit::DeltaTimeFromTrueAnomoly, a const method)

\* the range test with its lower bound left out
OutOfHyperbolicRange_UpperOnly(TrueAnomoly, CriticalAngle) ==
    Gt(TrueAnomoly, Sub(PI, CriticalAngle))

HyperbolicCriticalAngle(o) == Acos(Div(One, o.mElements.Eccentricity))

OutOfHyperbolicRange(TrueAnomoly, CriticalAngle) ==
    \/ Gt(TrueAnomoly, Sub(PI, CriticalAngle))
    \/ Lt(TrueAnomoly, Add(Neg(PI), CriticalAngle))

\* The number Factor * (Offset + M), M the mean anomaly at the true anomaly
\* TrueAnomolyEnd on a closed orbit, when the sine and cosine of
\* TrueAnomolyEnd are not exact numbers: M is left unevaluated.  M is a
\* function of TrueAnomolyEnd of period 2 pi, strictly increasing from -pi
\* to pi, with M = 0 at 0 and M = pi at pi.
Unevaluated(Factor, Offset, TrueAnomolyEnd) ==
    <<Factor, Offset, TrueAnomolyEnd, "M">>

IsUnevaluated(x) == Len(x) = 4

DeltaTimeFromTrueAnomoly(o, TrueAnomoly) ==
    IF o.mClassification = "INVALID" THEN Infinity
    ELSE IF IsCircular(o.mElements) THEN Mul(o.mMeanRadialPeriod, TrueAnomoly)
    ELSE IF IsClosed(o.mElements)
    THEN LET DeltaTrueAnomoly == Sub(TrueAnomoly, o.mElements.TrueAnomoly)
             Polarity == Signum(DeltaTrueAnomoly)
             FullRevolutions ==
                 Floor(Div(Mul(Polarity, DeltaTrueAnomoly), TwoPi))
             TrueAnomolyEnd == Sub(TrueAnomoly, Mul(Polarity, FullRevolutions))
             AnomolyEnd ==
                 TrueToEccentricAnomoly(TrueAnomolyEnd, o.mElements.Eccentricity)
             MeanAnomolyEnd ==
                 EccentricToMeanAnomoly(AnomolyEnd, o.mElements.Eccentricity)
         IN  IF IsPiMultiple(TrueAnomolyEnd)
             THEN Mul(o.mMeanRadialPeriod,
                      Add(Mul(TwoPi, FullRevolutions),
                          Sub(MeanAnomolyEnd, o.mMeanAnomoly)))
             ELSE Unevaluated(o.mMeanRadialPeriod,
                              Sub(Mul(TwoPi, FullRevolutions), o.mMeanAnomoly),
                              TrueAnomolyEnd)
    ELSE IF /\ o.mClassification = "HYPERBOLIC"
            /\ OutOfHyperbolicRange(TrueAnomoly, HyperbolicCriticalAngle(o))
    THEN Infinity
    ELSE LET AnomolyEnd ==
                 TrueToEccentricAnomoly(TrueAnomoly, o.mElements.Eccentricity)
             MeanAnomolyEnd ==
                 EccentricToMeanAnomoly(AnomolyEnd, o.mElements.Eccentricity)
         IN  Mul(o.mMeanRadialPeriod, Sub(MeanAnomolyEnd, o.mMeanAnomoly))

\* the orbits that are queried: the hyperbola has eccentricity 2, whose
\* critical angle acos(1/2) is exact
QueryEccentricities == {Zero, Rat(3, 5), One, Two}

QueryElementSets ==
    UNION { { [DefaultElements EXCEPT
                 !.SemiMajorAxis = a, !.GravitationalParameter = mu,
                 !.Eccentricity = e, !.Inclination = i,
                 !.SemiParameter = SemiParameterOf(a, e),
                 !.TrueAnomoly = nu] :
              a \in SemiMajorAxesOf(e), mu \in GravitationalParameters,
              i \in Inclinations, nu \in TrueAnomolies(e) } :
            e \in QueryEccentricities }

\* the true anomalies asked for: on a conic that is not a circle, those at
\* which the anomaly conversions are exact, and 5 pi / 6
QueryAnomolies(o) ==
    IF o.mClassification = "INVALID" \/ IsCircular(o.mElements)
    THEN {Zero, PiMul(1, 2), PiMul(5, 6), PI, PiMul(-5, 6), Neg(PI)}
    ELSE IF IsClosed(o.mElements) THEN {Zero, PI}
    ELSE IF o.mClassification = "HYPERBOLIC"
    THEN {Zero, PiMul(5, 6), PI, TwoPi, Neg(PI), Neg(TwoPi)}
    ELSE {Zero, PiMul(1, 2), PiMul(-1, 2)}

InitQuery ==
    /\ \E Elements \in QueryElementSets : orbit = NewOrbit(Elements)
    /\ initial = orbit
    /\ prev = orbit
    /\ lastDt = Zero
    /\ elapsed = Zero
    /\ nUpdates = 0
    /\ \/ \E TrueAnomoly \in QueryAnomolies(orbit) :
            tof = [pc |-> "call", TrueAnomoly |-> TrueAnomoly,
                   Result |-> Zero]
       \* two calls whose arguments differ by Revolutions times 2 pi (on a
       \* parabola the anomaly at pi is not an exact number)
       \/ \E TrueAnomoly \in {Zero, TwoPi}
                            \cup (IF IsParabolic(orbit.mElements)
                                  THEN {} ELSE {PI}),
               Revolutions \in {1, 2} :
            tof = [pc |-> "calls", TrueAnomoly |-> TrueAnomoly,
                   Revolutions |-> Revolutions]
    /\ cls = Idle /\ nw = Idle /\ bs = Idle
    /\ sc = Idle /\ cv = Idle /\ th = Idle /\ fn = Idle

Query ==
    /\ tof.pc = "call"
    /\ tof' = [tof EXCEPT
                 !.pc = "done",
                 !.Result = DeltaTimeFromTrueAnomoly(orbit, tof.TrueAnomoly)]
    /\ UNCHANGED <<orbitVars, cls, nw, bs, sc, cv, th, fn>>

\* DeltaTimeFromTrueAnomoly(TrueAnomoly) and
\* DeltaTimeFromTrueAnomoly(TrueAnomoly + 2 pi Revolutions) return
QueryPair ==
    /\ tof.pc = "calls"
    /\ tof' = [pc |-> "both", TrueAnomoly |-> tof.TrueAnomoly,
               Revolutions |-> tof.Revolutions,
               Result |-> DeltaTimeFromTrueAnomoly(orbit, tof.TrueAnomoly),
               OtherResult |->
                   DeltaTimeFromTrueAnomoly(
                       orbit, Add(tof.TrueAnomoly,
                                  Mul(TwoPi, Whole(tof.Revolutions))))]
    /\ UNCHANGED <<orbitVars, cls, nw, bs, sc, cv, th, fn>>

\* Update(DeltaTimeFromTrueAnomoly(TrueAnomoly)), for a finite time of
\* flight; on a parabola, for the time at which Barker's equation has an
\* exact solution
MoveToTarget ==
    /\ tof.pc = "done"
    /\ IsFinite(tof.Result)
    /\ orbit.mClassification = "PARABOLIC"
           => tof.Result = Mul(orbit.mMeanRadialPeriod, orbit.mMeanAnomoly)
    /\ tof' = [tof EXCEPT !.pc = "moved"]
    /\ orbit' = UpdateOrbit(orbit, tof.Result)
    /\ prev' = orbit
    /\ lastDt' = tof.Result
    /\ elapsed' = Add(elapsed, tof.Result)
    /\ nUpdates' = nUpdates + 1
    /\ UNCHANGED <<initial, cls, nw, bs, sc, cv, th, fn>>

NextQuery == Query \/ QueryPair \/ MoveToTarget

SpecQuery == InitQuery /\ [][NextQuery]_vars

\* ------------------------------------------------------------------------

\* The conversion specification: one call of Newtonian2Kepler, or two calls
\* of Kepler2Newtonian whose arguments differ in their angular elements

\* Vector3 is the tuple <<X, Y, Z>>
NormSquared(U) == Add(Add(Mul(U[1], U[1]), Mul(U[2], U[2])), Mul(U[3], U[3]))

Cross(U, V) ==
    <<Sub(Mul(U[2], V[3]), Mul(U[3], V[2])),
      Add(Mul(Neg(U[1]), V[3]), Mul(U[3], V[1])),
      Sub(Mul(U[1], V[2]), Mul(U[2], V[1]))>>

Dot(U, V) == Add(Add(Mul(U[1], V[1]), Mul(U[2], V[2])), Mul(U[3], V[3]))

\* the test for a state that has no orbit, without the test of the velocity
IsDegenerate_PositionOnly(Radius, SpeedSquared) == Eq(Radius, Zero)

\* the test for a node vector, always passed
HasNode_Always(NodeVectorMagn) == TRUE

IsDegenerate(Radius, SpeedSquared) ==
    Eq(Radius, Zero) \/ Eq(SpeedSquared, Zero)

HasNode(NodeVectorMagn) == Gt(NodeVectorMagn, Zero)

\* The locals of Newtonian2Kepler are the parameters of the operators below,
\* so that each is computed once, in the order of the code.
Newtonian2Kepler(Position, Velocity, GravitationalParameter) ==
    LET \* Angle, or 2 pi - Angle when Test < 0
        Wrapped(Angle, Test) ==
            IF Lt(Test, Zero) THEN Sub(TwoPi, Angle) ELSE Angle
        \* lines 289-340: the angles
        Angles(Radius, KinematicDot, AngularMomentum, AngularMomentumMagn,
               NodeVector, NodeVectorMagn, EccentricityVector, Eccentricity,
               SemiMajorAxis, SemiParameter) ==
            [SemiParameter |-> SemiParameter,
             SemiMajorAxis |-> SemiMajorAxis,
             Eccentricity |-> Eccentricity,
             GravitationalParameter |-> GravitationalParameter,
             Inclination |->
                 Acos(Div(AngularMomentum[3], AngularMomentumMagn)),
             Node |->
                 IF HasNode(NodeVectorMagn)
                 THEN Wrapped(Acos(Div(NodeVector[1], NodeVectorMagn)),
                              NodeVector[2])
                 ELSE Zero,
             ArgumentPerigee |->
                 IF HasNode(NodeVectorMagn)
                 THEN Wrapped(Acos(Div(Dot(NodeVector, EccentricityVector),
                                       Mul(Eccentricity, NodeVectorMagn))),
                              EccentricityVector[3])
                 ELSE Zero,
             ArgumentLatitude |->
                 IF HasNode(NodeVectorMagn)
                 THEN Wrapped(Acos(Div(Dot(NodeVector, Position),
                                       Mul(NodeVectorMagn, Radius))),
                              Position[3])
                 ELSE Zero,
             TrueAnomoly |->
                 IF Gt(Eccentricity, Zero)
                 THEN Wrapped(Acos(Div(Dot(EccentricityVector, Position),
                                       Mul(Eccentricity, Radius))),
                              KinematicDot)
                 ELSE Zero,
             TrueLongitudeOfPeriapsis |->
                 IF Gt(Eccentricity, Zero)
                 THEN Wrapped(Acos(Div(EccentricityVector[1], Eccentricity)),
                              EccentricityVector[2])
                 ELSE Zero,
             TrueLongitude |->
                 Wrapped(Acos(Div(Position[1], Radius)), Position[2])]
        \* lines 277-287: the size of the orbit
        Sized(Radius, KinematicDot, AngularMomentum, AngularMomentumMagn,
              NodeVector, NodeVectorMagn, EccentricityVector, Eccentricity,
              MechanicalEnergy, SemiMajorAxis) ==
            Angles(Radius, KinematicDot, AngularMomentum, AngularMomentumMagn,
                   NodeVector, NodeVectorMagn, EccentricityVector,
                   Eccentricity, SemiMajorAxis,
                   IF Eq(Eccentricity, One)
                   THEN Div(Mul(AngularMomentumMagn, AngularMomentumMagn),
                            GravitationalParameter)
                   ELSE Mul(SemiMajorAxis,
                            Sub(One, Mul(Eccentricity, Eccentricity))))
        Measured(Radius, KinematicDot, AngularMomentum, AngularMomentumMagn,
                 NodeVector, NodeVectorMagn, EccentricityVector, Eccentricity,
                 MechanicalEnergy) ==
            Sized(Radius, KinematicDot, AngularMomentum, AngularMomentumMagn,
                  NodeVector, NodeVectorMagn, EccentricityVector,
                  Eccentricity, MechanicalEnergy,
                  IF Eq(Eccentricity, One) THEN Infinity
                  ELSE Div(Neg(GravitationalParameter),
                           Mul(Two, MechanicalEnergy)))
        \* lines 266-275: the magnitudes
        Vectors(Radius, KinematicDot, AngularMomentum, NodeVector,
                EccentricityVector, MechanicalEnergy) ==
            Measured(Radius, KinematicDot, AngularMomentum,
                     Sqrt(NormSquared(AngularMomentum)),
                     NodeVector, Sqrt(NormSquared(NodeVector)),
                     EccentricityVector,
                     Sqrt(NormSquared(EccentricityVector)), MechanicalEnergy)
        \* lines 264-272: the vectors
        Scalars(Radius, SpeedSquared, KinematicDot, AngularMomentum, Excess) ==
            Vectors(Radius, KinematicDot, AngularMomentum,
                    Cross(<<Zero, Zero, One>>, AngularMomentum),
                    [i \in 1..3 |->
                        Div(Sub(Mul(Excess, Position[i]),
                                Mul(KinematicDot, Velocity[i])),
                            GravitationalParameter)],
                    Sub(Mul(Rat(1, 2), SpeedSquared),
                        Div(GravitationalParameter, Radius)))
        Valid(Radius, SpeedSquared) ==
            Scalars(Radius, SpeedSquared, Dot(Position, Velocity),
                    Cross(Position, Velocity),
                    Sub(SpeedSquared, Div(GravitationalParameter, Radius)))
        \* lines 253-259
        Checked(Radius, SpeedSquared) ==
            IF IsDegenerate(Radius, SpeedSquared) THEN DefaultElements
            ELSE Valid(Radius, SpeedSquared)
    IN  Checked(Sqrt(NormSquared(Position)), NormSquared(Velocity))

\* The divisors of the divisions one call of Newtonian2Kepler evaluates,
\* Eccentricity being the eccentricity the call computes
Newtonian2KeplerDivisors(Position, Velocity, GravitationalParameter, Eccentricity) ==
    LET Radius == Sqrt(NormSquared(Position))
        SpeedSquared == NormSquared(Velocity)
        AngularMomentum == Cross(Position, Velocity)
        NodeVectorMagn ==
            Sqrt(NormSquared(Cross(<<Zero, Zero, One>>, AngularMomentum)))
        MechanicalEnergy ==
            Sub(Mul(Rat(1, 2), SpeedSquared),
                Div(GravitationalParameter, Radius))
    IN  IF IsDegenerate(Radius, SpeedSquared) THEN {}
        ELSE \* lines 271-273
             {Radius, GravitationalParameter}
             \* lines 279 and 285
             \cup (IF Eq(Eccentricity, One) THEN {GravitationalParameter}
                   ELSE {Mul(Two, MechanicalEnergy)})
             \* line 290
             \cup {Sqrt(NormSquared(AngularMomentum))}
             \* lines 295, 302 and 309
             \cup (IF HasNode(NodeVectorMagn)
                   THEN {NodeVectorMagn, Mul(Eccentricity, NodeVectorMagn),
                         Mul(NodeVectorMagn, Radius)}
                   ELSE {})
             \* lines 318 and 325
             \cup (IF Gt(Eccentricity, Zero)
                   THEN {Mul(Eccentricity, Radius), Eccentricity}
                   ELSE {})

\* Quaternion is the record [X, Y, Z, S]
FromVectorAngle(U, Angle) ==
    LET SAngle == Sin(Mul(Angle, Rat(1, 2)))
        MagnSq == NormSquared(U)
        Unit == IF Gt(MagnSq, Zero)
                THEN (IF Eq(MagnSq, One) THEN U
                      ELSE [i \in 1..3 |-> Div(U[i], Sqrt(MagnSq))])
                ELSE <<Zero, Zero, Zero>>
    IN  [X |-> Mul(Unit[1], SAngle), Y |-> Mul(Unit[2], SAngle),
         Z |-> Mul(Unit[3], SAngle), S |-> Cos(Mul(Angle, Rat(1, 2)))]

\* Quaternion::operator*(const Quaternion&): P * Q
QuaternionProduct(P, Q) ==
    [X |-> Sub(Add(Add(Mul(Q.X, P.S), Mul(Q.S, P.X)), Mul(Q.Z, P.Y)),
               Mul(Q.Y, P.Z)),
     Y |-> Add(Sub(Add(Mul(Q.Y, P.S), Mul(Q.S, P.Y)), Mul(Q.Z, P.X)),
               Mul(Q.X, P.Z)),
     Z |-> Sub(Add(Add(Mul(Q.Z, P.S), Mul(Q.S, P.Z)), Mul(Q.Y, P.X)),
               Mul(Q.X, P.Y)),
     S |-> Sub(Sub(Sub(Mul(Q.S, P.S), Mul(Q.X, P.X)), Mul(Q.Y, P.Y)),
               Mul(Q.Z, P.Z))]

\* Quaternion::Rotate
Rotate(Q, U) ==
    LET Tx == Sub(Mul(Q.Z, U[2]), Mul(Q.Y, U[3]))
        Ty == Sub(Mul(Q.X, U[3]), Mul(Q.Z, U[1]))
        Tz == Sub(Mul(Q.Y, U[1]), Mul(Q.X, U[2]))
    IN  <<Add(U[1], Mul(Two, Sub(Add(Mul(Tx, Q.S), Mul(Ty, Q.Z)), Mul(Tz, Q.Y)))),
          Add(U[2], Mul(Two, Sub(Add(Mul(Ty, Q.S), Mul(Tz, Q.X)), Mul(Tx, Q.Z)))),
          Add(U[3], Mul(Two, Sub(Add(Mul(Tz, Q.S), Mul(Tx, Q.Y)), Mul(Ty, Q.X))))>>

\* struct EphemerisState, every field at its default
DefaultEphemerisState ==
    [Pos |-> <<Zero, Zero, Zero>>, Vel |-> <<Zero, Zero, Zero>>,
     LightTime |-> Zero]

SPEED_LIGHT == Whole(299792458)

\* the angles of every regime taken as those of the general one
UsedAngles_General(Elements, Classification) ==
    [UseAnomoly |-> Elements.TrueAnomoly, UseNode |-> Elements.Node,
     UsePerigee |-> Elements.ArgumentPerigee]

\* the anomaly, node and perigee Kepler2Newtonian takes from the elements
UsedAngles(Elements, Classification) ==
    IF Classification = "CIRCULAR_EQUATORIAL"
    THEN [UseAnomoly |-> Elements.TrueLongitude, UseNode |-> Zero,
          UsePerigee |-> Zero]
    ELSE IF Classification = "CIRCULAR_INCLINED"
    THEN [UseAnomoly |-> Elements.ArgumentLatitude, UseNode |-> Elements.Node,
          UsePerigee |-> Zero]
    ELSE IF Classification = "ELLIPTICAL_EQUATORIAL"
    THEN [UseAnomoly |-> Elements.TrueAnomoly, UseNode |-> Zero,
          UsePerigee |-> Elements.TrueLongitudeOfPeriapsis]
    ELSE [UseAnomoly |-> Elements.TrueAnomoly, UseNode |-> Elements.Node,
          UsePerigee |-> Elements.ArgumentPerigee]

\* Kepler2Newtonian after its validity test; its locals are the parameters
\* of the operators below, each computed once
Kepler2NewtonianOfValid(Elements) ==
    LET \* lines 388-399
        State(CosAnomoly, SinAnomoly, Distance, Coeff2, Rot) ==
            [Pos |-> Rotate(Rot, <<Mul(Distance, CosAnomoly),
                                   Mul(Distance, SinAnomoly), Zero>>),
             Vel |-> Rotate(Rot, <<Mul(Neg(Coeff2), SinAnomoly),
                                   Mul(Coeff2, Add(Elements.Eccentricity,
                                                   CosAnomoly)), Zero>>),
             LightTime |-> Div(Distance, SPEED_LIGHT)]
        \* lines 385-386
        InPlane(Use, CosAnomoly, SinAnomoly) ==
            State(CosAnomoly, SinAnomoly,
                  Div(Elements.SemiParameter,
                      Add(One, Mul(Elements.Eccentricity, CosAnomoly))),
                  Sqrt(Div(Elements.GravitationalParameter,
                           Elements.SemiParameter)),
                  QuaternionProduct(
                      QuaternionProduct(
                          FromVectorAngle(<<Zero, Zero, One>>,
                                          Neg(Use.UsePerigee)),
                          FromVectorAngle(<<One, Zero, Zero>>,
                                          Neg(Elements.Inclination))),
                      FromVectorAngle(<<Zero, Zero, One>>, Neg(Use.UseNode))))
        \* lines 383-384
        Selected(Use) ==
            InPlane(Use, Cos(Use.UseAnomoly), Sin(Use.UseAnomoly))
    IN  Selected(UsedAngles(Elements, ClassifyOrbit(Elements)))

\* the conversion without its validity test
Kepler2Newtonian_Unchecked(Elements) == Kepler2NewtonianOfValid(Elements)

Kepler2Newtonian(Elements) ==
    IF ~IsValid(Elements) THEN DefaultEphemerisState
    ELSE Kepler2NewtonianOfValid(Elements)

\* positions and velocities along the axes: every norm is rational
ConvertVectors ==
    {<<Zero, Zero, Zero>>, <<One, Zero, Zero>>, <<Zero, One, Zero>>,
     <<Zero, Zero, One>>, <<Two, Zero, Zero>>, <<Zero, Whole(-1), Zero>>}

\* The angular elements: three rotation angles, whose half must have a
\* rational sine and cosine, and three anomalies, with a rational sine and
\* cosine
RotationElements == {"Node", "ArgumentPerigee", "TrueLongitudeOfPeriapsis"}
AnomolyElements == {"TrueAnomoly", "ArgumentLatitude", "TrueLongitude"}

\* the angular elements in which the arguments of the two calls differ: one
\* of them, or all but a few
ChangedElementSets ==
    LET AngularElements == RotationElements \cup AnomolyElements
    IN  {{}} \cup {{f} : f \in AngularElements}
             \cup {AngularElements \ Kept :
                     Kept \in {{"TrueLongitude"},
                               {"Node", "ArgumentLatitude"},
                               {"TrueLongitudeOfPeriapsis", "TrueAnomoly"},
                               {"Node", "ArgumentPerigee", "TrueAnomoly"}}}

\* Elements with the angular elements in Changed set to their other value
WithChanged(Elements, Changed) ==
    [f \in DOMAIN Elements |->
        IF f \notin Changed THEN Elements[f]
        ELSE IF Elements[f] # Zero THEN Zero
        ELSE IF f \in RotationElements THEN PI ELSE PiMul(1, 2)]

InitConvert ==
    /\ NoOrbit
    /\ cls = Idle /\ nw = Idle /\ bs = Idle
    /\ sc = Idle /\ tof = Idle /\ th = Idle /\ fn = Idle
    /\ \/ \E Position \in ConvertVectors, Velocity \in ConvertVectors,
             GravitationalParameter \in GravitationalParameters :
             cv = [pc |-> "Newtonian2Kepler", Position |-> Position,
                   Velocity |-> Velocity,
                   GravitationalParameter |-> GravitationalParameter]
       \/ \E a \in {Whole(-1), One}, mu \in GravitationalParameters,
             e \in {Zero, Rat(1, 2), One, Two}, i \in {Zero, PI},
             Turned \in ChangedElementSets,
             Changed \in ChangedElementSets :
             LET Elements ==
                     WithChanged([DefaultElements EXCEPT
                                    !.SemiMajorAxis = a,
                                    !.GravitationalParameter = mu,
                                    !.Eccentricity = e, !.Inclination = i,
                                    !.SemiParameter = One], Turned)
             IN  cv = [pc |-> "Kepler2Newtonian", Elements |-> Elements,
                       Other |-> WithChanged(Elements, Changed)]

\* Newtonian2Kepler(Position, Velocity, GravitationalParameter) returns
ConvertToKepler ==
    /\ cv.pc = "Newtonian2Kepler"
    /\ LET Returned(Result) ==
               [pc |-> "elements", Position |-> cv.Position,
                Velocity |-> cv.Velocity,
                GravitationalParameter |-> cv.GravitationalParameter,
                Result |-> Result,
                Divisors |->
                    Newtonian2KeplerDivisors(
                        cv.Position, cv.Velocity,
                        cv.GravitationalParameter, Result.Eccentricity)]
       IN  cv' = Returned(Newtonian2Kepler(cv.Position, cv.Velocity,
                                           cv.GravitationalParameter))
    /\ UNCHANGED <<orbitVars, cls, nw, bs, sc, tof, th, fn>>

\* Kepler2Newtonian(Elements) and Kepler2Newtonian(Other) return
ConvertToNewtonian ==
    /\ cv.pc = "Kepler2Newtonian"
    /\ LET Returned(State) ==
               [pc |-> "state", Elements |-> cv.Elements, Other |-> cv.Other,
                Result |-> State[cv.Elements], OtherResult |-> State[cv.Other]]
       IN  cv' = Returned([Elements \in {cv.Elements, cv.Other} |->
                              Kepler2Newtonian(Elements)])
    /\ UNCHANGED <<orbitVars, cls, nw, bs, sc, tof, th, fn>>

\* Kepler2Newtonian(Newtonian2Kepler(Position, Velocity,
\* GravitationalParameter)) returns, for the states whose elements are not
\* valid (no rotation is made) and for the states in the equatorial plane
\* with the position on the X axis (the half of every rotation angle then
\* has a rational sine)
ConvertBack ==
    /\ cv.pc = "elements"
    /\ \/ ~IsValid(cv.Result)
       \/ /\ cv.Position[2] = Zero /\ cv.Position[3] = Zero
          /\ cv.Velocity[3] = Zero
    /\ cv' = [pc |-> "roundtrip", Position |-> cv.Position,
              Velocity |-> cv.Velocity,
              GravitationalParameter |-> cv.GravitationalParameter,
              Elements |-> cv.Result,
              Result |-> Kepler2Newtonian(cv.Result)]
    /\ UNCHANGED <<orbitVars, cls, nw, bs, sc, tof, th, fn>>

NextConvert == ConvertToKepler \/ ConvertToNewtonian \/ ConvertBack

SpecConvert == InitConvert /\ [][NextConvert]_vars

\* ------------------------------------------------------------------------

\* The anomaly specification: one call of TrueToEccentricAnomoly and one call
\* of EccentricToTrueAnomoly on its result, with the same eccentricity

InitAnomoly ==
    /\ NoOrbit
    /\ cls = Idle /\ nw = Idle /\ bs = Idle
    /\ sc = Idle /\ tof = Idle /\ cv = Idle /\ th = Idle
    /\ LET \* eccentricities of the three branches
           Closed == {Zero, Rat(1, 100), Rat(1, 4), Rat(1, 2), Rat(3, 5),
                      Rat(3, 4), Rat(4, 5), Rat(99, 100)}
           Open == {One, Rat(5, 4), Two, Whole(3)}
           \* true anomalies whose sine is 0, and those whose cosine is 0
           \* (on a circle and on a parabola, where the anomaly these give
           \* is an exact number; the tangent of pi / 2 is not)
           OnAxis == {Zero, PI, TwoPi}
           OffAxis == {PiMul(-3, 2), PiMul(-1, 2), PiMul(1, 2), PiMul(3, 2)}
       IN  \E Eccentricity \in Closed \cup Open :
           \E TrueAnomoly \in
                 IF Eccentricity = One THEN {Zero, TwoPi} \cup OffAxis
                 ELSE IF Eccentricity = Zero THEN OnAxis \cup OffAxis
                 ELSE OnAxis :
               fn = [pc |-> "TrueToEccentricAnomoly",
                     TrueAnomoly |-> TrueAnomoly,
                     Eccentricity |-> Eccentricity]

\* TrueToEccentricAnomoly(TrueAnomoly, Eccentricity) returns
ToEccentricAnomoly ==
    /\ fn.pc = "TrueToEccentricAnomoly"
    /\ fn' = [pc |-> "EccentricToTrueAnomoly",
              TrueAnomoly |-> fn.TrueAnomoly,
              Eccentricity |-> fn.Eccentricity,
              Anomoly |-> TrueToEccentricAnomoly(fn.TrueAnomoly,
                                                 fn.Eccentricity)]
    /\ UNCHANGED <<orbitVars, cls, nw, bs, sc, tof, cv, th>>

\* EccentricToTrueAnomoly(Anomoly, Eccentricity) returns
ToTrueAnomoly ==
    /\ fn.pc = "EccentricToTrueAnomoly"
    /\ fn' = [pc |-> "done", TrueAnomoly |-> fn.TrueAnomoly,
              Eccentricity |-> fn.Eccentricity, Anomoly |-> fn.Anomoly,
              Result |-> EccentricToTrueAnomoly(fn.Anomoly, fn.Eccentricity)]
    /\ UNCHANGED <<orbitVars, cls, nw, bs, sc, tof, cv, th>>

NextAnomoly == ToEccentricAnomoly \/ ToTrueAnomoly

SpecAnomoly == InitAnomoly /\ [][NextAnomoly]_vars

\* ------------------------------------------------------------------------

\* The split specification: one call of HString::Split, a pass of its loop
\* at a time.  A string is a sequence of characters; positions count from 0.

MaxLen == 3
\* the number of elements the array can hold before an allocation fails
MaxParts == 6
\* std::string::npos, above every position
Npos == 2147483647

\* HString::Find: std::string::find(SubString, StartPos)
Find(String, SubString, StartPos) ==
    LET Found == {p \in StartPos .. (Len(String) - Len(SubString)) :
                    \A i \in 1 .. Len(SubString) :
                        String[p + i] = SubString[i]}
    IN  IF Found = {} THEN Npos
        ELSE CHOOSE p \in Found : \A q \in Found : p <= q

\* HString::Substring
Substring(String, StartPos, Length) ==
    LET StrSize == Len(String)
        TrueLength == IF Length > StrSize - StartPos
                      THEN StrSize - StartPos ELSE Length
    IN  IF StartPos >= StrSize THEN <<>>
        ELSE [Index \in 1 .. TrueLength |-> String[StartPos + Index]]

InitSplit ==
    /\ NoOrbit
    /\ cls = Idle /\ nw = Idle /\ bs = Idle
    /\ sc = Idle /\ tof = Idle /\ cv = Idle /\ th = Idle
    /\ LET Strings(n) == UNION {[1 .. k -> {"a", "-"}] : k \in 0 .. n}
       IN  \E String \in Strings(MaxLen), Separator \in Strings(MaxLen - 1) :
             fn = [pc |-> "call", mString |-> String,
                   Separator |-> Separator, LastPos |-> 0, Pos |-> 0,
                   Result |-> <<>>]

\* lines 234-237
SplitCall ==
    /\ fn.pc = "call"
    /\ fn' = [fn EXCEPT !.pc = "loop",
                        !.Pos = Find(fn.mString, fn.Separator, 0)]
    /\ UNCHANGED <<orbitVars, cls, nw, bs, sc, tof, cv, th>>

\* lines 239-245: one pass of the loop; AppendBack throws std::bad_alloc
\* when the array cannot grow
SplitPass ==
    /\ fn.pc = "loop"
    /\ fn.Pos < Len(fn.mString)
    /\ IF Len(fn.Result) >= MaxParts
       THEN fn' = [fn EXCEPT !.pc = "bad_alloc"]
       ELSE LET LastPos == fn.Pos + Len(fn.Separator)
            IN  fn' = [fn EXCEPT
                         !.Result =
                             Append(fn.Result,
                                    Substring(fn.mString, fn.LastPos,
                                              fn.Pos - fn.LastPos)),
                         !.LastPos = LastPos,
                         !.Pos = Find(fn.mString, fn.Separator, LastPos)]
    /\ UNCHANGED <<orbitVars, cls, nw, bs, sc, tof, cv, th>>

\* lines 247-249
SplitReturn ==
    /\ fn.pc = "loop"
    /\ ~(fn.Pos < Len(fn.mString))
    /\ fn' = [fn EXCEPT
                !.pc = "done",
                !.Result = Append(fn.Result,
                                  Substring(fn.mString, fn.LastPos,
                                            fn.Pos - fn.LastPos))]
    /\ UNCHANGED <<orbitVars, cls, nw, bs, sc, tof, cv, th>>

NextSplit == SplitCall \/ SplitPass \/ SplitReturn

SpecSplit == InitSplit /\ [][NextSplit]_vars

\* a call that can take a step takes it
FairSpecSplit == SpecSplit /\ WF_vars(NextSplit)

\* ------------------------------------------------------------------------

\* The threads specification: two threads call Update on one Orbit with no
\* lock in the Orbit.  A step is one statement of Update.  Each of the four
\* fields Update writes carries the thread whose DeltaTime it derives from
\* (0: the constructor).  When th.serialized the callers take turns.

Threads == {1, 2}

\* the DeltaTime thread t passes to Update
ThreadDeltaTime(t) == PiMul(t, 2)

ThreadElementSets ==
    UNION { { [DefaultElements EXCEPT
                 !.SemiMajorAxis = a, !.GravitationalParameter = One,
                 !.Eccentricity = e,
                 !.SemiParameter = SemiParameterOf(a, e),
                 !.TrueAnomoly = nu] :
              a \in {Whole(-1), One, Whole(4)}, nu \in TrueAnomolies(e) } :
            e \in {Zero, Rat(3, 5), Rat(5, 4)} }

\* Update without its last statement
UpdateStatementAfter_NoRadius(pc, OnCircle) ==
    CASE pc = "idle" -> "test"
      [] pc = "test" -> IF OnCircle THEN "longitude" ELSE "mean"
      [] pc = "longitude" -> "done"
      [] pc = "mean" -> "eccentric"
      [] pc = "eccentric" -> "true"
      [] pc = "true" -> "done"

\* the statement of Update that follows statement pc
UpdateStatementAfter(pc, OnCircle) ==
    CASE pc = "idle" -> "test"
      [] pc = "test" -> IF OnCircle THEN "longitude" ELSE "mean"
      [] pc = "longitude" -> "done"
      [] pc = "mean" -> "eccentric"
      [] pc = "eccentric" -> "true"
      [] pc = "true" -> "radius"
      [] pc = "radius" -> "done"

InitThreads ==
    /\ \E Elements \in ThreadElementSets : orbit = NewOrbit(Elements)
    /\ initial = orbit
    /\ prev = orbit
    /\ lastDt = Zero
    /\ elapsed = Zero
    /\ nUpdates = 0
    /\ \E serialized \in BOOLEAN :
         th = [serialized |-> serialized,
               from |-> [mMeanAnomoly |-> 0, mEccentricAnomoly |-> 0,
                         TrueAnomoly |-> 0, mRadius |-> 0],
               calls |-> [t \in Threads |->
                            [pc |-> "idle",
                             Anomoly |-> DefaultDeltaTimeAnomoly,
                             TrueAnomoly |-> Zero, TrueFrom |-> 0]]]
    /\ cls = Idle /\ nw = Idle /\ bs = Idle
    /\ sc = Idle /\ tof = Idle /\ cv = Idle /\ fn = Idle

\* Thread t executes its next statement of Update(ThreadDeltaTime(t)).  A
\* value the thread has just stored may be read back from the Orbit or kept
\* in a register: without a lock both are outcomes of the build.
ThreadStep(t) ==
    LET c == th.calls[t]
        e == orbit.mElements.Eccentricity
        next == UpdateStatementAfter(c.pc, IsCircular(orbit.mElements))
        Busy == \E u \in Threads \ {t} : th.calls[u].pc \notin {"idle", "done"}
    IN  /\ c.pc # "done"
        /\ (th.serialized /\ c.pc = "idle") => ~Busy
        /\ CASE c.pc = "idle" ->
                  /\ th' = [th EXCEPT
                              !.calls[t].pc = next,
                              !.calls[t].Anomoly =
                                  AnomolyFromDeltaTime(orbit, ThreadDeltaTime(t))]
                  /\ orbit' = orbit
             [] c.pc = "test" ->
                  /\ th' = [th EXCEPT !.calls[t].pc = next]
                  /\ orbit' = orbit
             [] c.pc = "longitude" ->
                  /\ th' = [th EXCEPT !.calls[t].pc = next]
                  /\ orbit' = [orbit EXCEPT !.mElements.TrueLongitude =
                                               c.Anomoly.EccentricAnomoly]
             [] c.pc = "mean" ->
                  /\ th' = [th EXCEPT !.calls[t].pc = next,
                                      !.from.mMeanAnomoly = t]
                  /\ orbit' = [orbit EXCEPT !.mMeanAnomoly =
                                               c.Anomoly.MeanAnomoly]
             [] c.pc = "eccentric" ->
                  /\ th' = [th EXCEPT !.calls[t].pc = next,
                                      !.from.mEccentricAnomoly = t]
                  /\ orbit' = [orbit EXCEPT !.mEccentricAnomoly =
                                               c.Anomoly.EccentricAnomoly]
             [] c.pc = "true" ->
                  \E Read \in {<<orbit.mEccentricAnomoly,
                                 th.from.mEccentricAnomoly>>,
                               <<c.Anomoly.EccentricAnomoly, t>>} :
                     LET TrueAnomoly == EccentricToTrueAnomoly(Read[1], e)
                     IN  /\ th' = [th EXCEPT
                                     !.calls[t].pc = next,
                                     !.calls[t].TrueAnomoly = TrueAnomoly,
                                     !.calls[t].TrueFrom = Read[2],
                                     !.from.TrueAnomoly = Read[2]]
                         /\ orbit' = [orbit EXCEPT
                                        !.mElements.TrueAnomoly = TrueAnomoly]
             [] c.pc = "radius" ->
                  \E Read \in {<<orbit.mElements.TrueAnomoly,
                                 th.from.TrueAnomoly>>,
                               <<c.TrueAnomoly, c.TrueFrom>>} :
                     /\ th' = [th EXCEPT !.calls[t].pc = next,
                                         !.from.mRadius = Read[2]]
                     /\ orbit' = [orbit EXCEPT !.mRadius =
                            CalculateRadius([orbit.mElements EXCEPT
                                               !.TrueAnomoly = Read[1]])]
        /\ UNCHANGED <<initial, prev, lastDt, elapsed, nUpdates,
                       cls, nw, bs, sc, tof, cv, fn>>

NextThreads == \E t \in Threads : ThreadStep(t)

SpecThreads == InitThreads /\ [][NextThreads]_vars

\* ------------------------------------------------------------------------

\* Properties of the orbit specification

Circular == {"CIRCULAR_EQUATORIAL", "CIRCULAR_INCLINED"}
Elliptical == {"ELLIPTICAL_EQUATORIAL", "ELLIPTICAL_INCLINED"}

\* an angle reduced to [0, 2 pi)
Mod2Pi(Angle) == Sub(Angle, Mul(TwoPi, Floor(Div(Angle, TwoPi))))

\* C1: on a valid circular orbit the true longitude after any sequence of
\* Update calls is the initial true longitude advanced by 2 pi for every
\* period of elapsed time, reduced modulo 2 pi.
C1_TrueLongitudeFollowsElapsedTime ==
    orbit.mClassification \in Circular =>
        orbit.mElements.TrueLongitude =
            Mod2Pi(Add(initial.mElements.TrueLongitude,
                       Mul(TwoPi, Div(elapsed, orbit.mPeriod))))

\* C2: the classification never changes after construction and always is
\* the classification of the current elements.
C2_ClassificationFixed ==
    /\ orbit.mClassification = initial.mClassification
    /\ orbit.mClassification = ClassifyOrbit(orbit.mElements)

C2_Witness ==
    /\ nUpdates >= 2
    /\ orbit.mClassification = "ELLIPTICAL_INCLINED"
    /\ orbit.mElements # initial.mElements

\* C3: Update on an INVALID orbit changes no element and no cached field.
C3_InvalidUpdateIsNoOp ==
    (nUpdates > 0 /\ prev.mClassification = "INVALID") => orbit = prev

\* C4: on an elliptical or hyperbolic orbit Update advances the mean anomaly
\* by DeltaTime / MeanRadialPeriod (modulo whole revolutions on the ellipse)
\* and leaves an eccentric anomaly whose Kepler equation gives that mean
\* anomaly.  (A HYPERBOLIC orbit whose mean radial period is not a number
\* has no such target; the statement is about the orbits that have one.)
C4_MeanAnomolyAdvances ==
    LET Target == Add(prev.mMeanAnomoly, Div(lastDt, prev.mMeanRadialPeriod))
        FromKepler == EccentricToMeanAnomoly(orbit.mEccentricAnomoly,
                                             orbit.mElements.Eccentricity)
    IN  /\ (nUpdates > 0 /\ prev.mClassification \in Elliptical) =>
              /\ Mod2Pi(orbit.mMeanAnomoly) = Mod2Pi(Target)
              /\ Mod2Pi(FromKepler) = Mod2Pi(Target)
        /\ (nUpdates > 0 /\ prev.mClassification = "HYPERBOLIC"
                         /\ ~IsNaN(Target)) =>
              /\ Eq(orbit.mMeanAnomoly, Target)
              /\ Eq(FromKepler, Target)

\* C5: after construction and after every Update the cached radius, mean
\* anomaly and eccentric anomaly are the ones the elements give.
C5_CacheConsistent ==
    LET e == orbit.mElements.Eccentricity
    IN  /\ orbit.mRadius = CalculateRadius(orbit.mElements)
        /\ orbit.mMeanAnomoly =
              EccentricToMeanAnomoly(orbit.mEccentricAnomoly, e)
        /\ orbit.mEccentricAnomoly =
              TrueToEccentricAnomoly(orbit.mElements.TrueAnomoly, e)

C5_Witness ==
    /\ nUpdates > 0
    /\ ~IsCircular(orbit.mElements)
    /\ orbit.mElements.TrueAnomoly # prev.mElements.TrueAnomoly
    /\ orbit.mRadius # prev.mRadius

\* C6: Update on a circular orbit changes the TrueLongitude element and
\* nothing else.
C6_CircularUpdateFrame ==
    (nUpdates > 0 /\ IsCircular(prev.mElements)) =>
        orbit = [prev EXCEPT
                   !.mElements.TrueLongitude = orbit.mElements.TrueLongitude]

C6_Witness ==
    /\ nUpdates > 0
    /\ IsCircular(prev.mElements)
    /\ prev.mMeanAnomoly # Zero
    /\ orbit.mElements.TrueLongitude # prev.mElements.TrueLongitude

\* ------------------------------------------------------------------------
\* Properties of the classification specification

\* C7: ClassifyOrbit returns INVALID exactly when SemiMajorAxis <= 0, else
\* HYPERBOLIC when e > 1, else PARABOLIC when e = 1, else ELLIPTICAL when
\* e > 0 and CIRCULAR when not, in the EQUATORIAL variant exactly when
\* IsEquatorial holds (Inclination 0 or 180) and INCLINED otherwise.
C7_ClassifyOrbitUsesIsEquatorial ==
    cls.pc = "done" =>
        LET E == cls.Elements
            Equatorial == IsEquatorial(E)
        IN  cls.Result =
              IF Le(E.SemiMajorAxis, Zero) THEN "INVALID"
              ELSE IF Gt(E.Eccentricity, One) THEN "HYPERBOLIC"
              ELSE IF Eq(E.Eccentricity, One) THEN "PARABOLIC"
              ELSE IF Gt(E.Eccentricity, Zero)
                   THEN (IF Equatorial THEN "ELLIPTICAL_EQUATORIAL"
                                       ELSE "ELLIPTICAL_INCLINED")
                   ELSE (IF Equatorial THEN "CIRCULAR_EQUATORIAL"
                                       ELSE "CIRCULAR_INCLINED")

\* ------------------------------------------------------------------------
\* Properties of the Newton specification

\* the steps a pass of the loop applied
NewtonPasses == {i \in 1 .. Len(nw.steps) : nw.steps[i].Pass >= 0}

\* C8: Newton returns SUCCESS exactly when one of its at most MaxIterations
\* passes applied a step with |Delta| < Tolerance; when none did it returns
\* INVALID_PARAMETERS if Tolerance < 0, MaxIterations < 1 or Relaxation < 0,
\* and MAX_ITERATIONS_EXCEEDED otherwise.  Bad parameters never turn a
\* converged run into INVALID_PARAMETERS.
C8_NewtonExitCode ==
    nw.pc = "done" =>
        LET P == nw.Parameters
            Converged == \E i \in NewtonPasses :
                            Lt(Abs(nw.steps[i].Delta), P.Tolerance)
            Bad == \/ Lt(P.Tolerance, Zero)
                   \/ P.MaxIterations < 1
                   \/ Lt(P.Relaxation, Zero)
        IN  /\ Cardinality(NewtonPasses) <=
                  (IF P.MaxIterations > 0 THEN P.MaxIterations ELSE 0)
            /\ nw.Result.ExitCode =
                  IF Converged THEN "SUCCESS"
                  ELSE IF Bad THEN "INVALID_PARAMETERS"
                  ELSE "MAX_ITERATIONS_EXCEEDED"

C8_Witness ==
    /\ nw.pc = "done"
    /\ nw.Result.ExitCode = "SUCCESS"
    /\ Lt(nw.Parameters.Relaxation, Zero)
    /\ Cardinality(NewtonPasses) >= 2

\* C9: every step Newton subtracts from X, the first one included, is
\* Relaxation * f(x) / f'(x) at the X it is applied to.
C9_EveryStepRelaxed ==
    nw.pc # "idle" =>
        \A i \in 1 .. Len(nw.steps) :
            nw.steps[i].Delta =
                Mul(nw.Parameters.Relaxation,
                    Div(Function(nw.Function, nw.steps[i].X),
                        Derivative(nw.Function, nw.steps[i].X)))

\* ------------------------------------------------------------------------
\* Properties of the bisection specification

\* the call was given no interval, or an interval that brackets no root
BisectBadInterval ==
    \/ Ge(bs.Lower, bs.Upper)
    \/ Gt(Mul(Function(bs.Function, bs.Lower),
              Function(bs.Function, bs.Upper)), Zero)

\* the function is exactly zero at a bound the call was given
BisectRootAtBound ==
    \/ Eq(Function(bs.Function, bs.Lower), Zero)
    \/ Eq(Function(bs.Function, bs.Upper), Zero)

\* C10 as stated: Bisect returns INVALID_INTERVAL without entering its loop
\* whenever x1 >= x2 or f(x1) * f(x2) > 0, a root at a bound included.
C10_BadIntervalAlwaysRejected ==
    (bs.pc # "idle" /\ BisectBadInterval) =>
        /\ bs.pc # "loop"
        /\ bs.passes = 0
        /\ bs.pc = "done" => bs.Result.ExitCode = "INVALID_INTERVAL"

\* C10: Bisect returns INVALID_INTERVAL without entering its loop whenever
\* x1 >= x2 or f(x1) * f(x2) > 0 and f is zero at neither bound; when f is
\* exactly zero at a bound it returns SUCCESS at that bound instead, also
\* without entering its loop, even when x1 >= x2.
C10_BadIntervalRejectedUnlessRootAtBound ==
    (bs.pc # "idle" /\ BisectBadInterval) =>
        /\ bs.pc # "loop"
        /\ bs.passes = 0
        /\ bs.pc = "done" =>
             IF BisectRootAtBound
             THEN /\ bs.Result.ExitCode = "SUCCESS"
                  /\ Eq(Function(bs.Function, bs.Result.X), Zero)
                  /\ bs.Result.X \in {bs.Lower, bs.Upper}
             ELSE bs.Result.ExitCode = "INVALID_INTERVAL"

C10_Witness ==
    /\ bs.pc = "done"
    /\ Gt(bs.Lower, bs.Upper)
    /\ ~BisectRootAtBound
    /\ Lt(Mul(bs.F1, bs.F2), Zero)
    /\ bs.Result.ExitCode = "INVALID_INTERVAL"

\* C11: when f(x1) * f(x2) > 0, Bisect returns INVALID_INTERVAL and has
\* called the function at x1 and at x2 and nowhere else, whatever the
\* parameters.
C11_NoBracketTwoEvaluations ==
    (bs.pc = "done" /\ Gt(Mul(Function(bs.Function, bs.Lower),
                              Function(bs.Function, bs.Upper)), Zero)) =>
        /\ bs.Result.ExitCode = "INVALID_INTERVAL"
        /\ bs.evals = <<bs.Lower, bs.Upper>>

C11_Witness ==
    /\ bs.pc = "done"
    /\ Gt(Mul(bs.F1, bs.F2), Zero)
    /\ Lt(bs.Lower, bs.Upper)
    /\ bs.Parameters.MaxIterations >= 1
    /\ Gt(bs.Parameters.Tolerance, Zero)
    /\ bs.evals = <<bs.Lower, bs.Upper>>

\* ------------------------------------------------------------------------
\* Properties of the secant specification

\* C12: a pass of Secant's loop that starts with the two most recent
\* function values equal returns ILL_POSED at that pass: not SUCCESS, and
\* the loop does not go on to MAX_ITERATIONS_EXCEEDED.
C12_FlatSecantIsIllPosed ==
    [][(sc.pc = "loop" /\ sc.Index < sc.Parameters.MaxIterations
                       /\ Eq(sc.Yn, sc.Yp)) =>
           (sc'.pc = "done" /\ sc'.Result.ExitCode = "ILL_POSED"
                            /\ sc'.Result.Iterations = sc.Index)]_vars

C12_Witness ==
    /\ sc.pc = "done"
    /\ sc.Result.ExitCode = "ILL_POSED"
    /\ sc.Result.Iterations >= 1
    /\ Eq(sc.Yn, sc.Yp)
    /\ SecantFailureCode(sc.Parameters) = "MAX_ITERATIONS_EXCEEDED"

\* ------------------------------------------------------------------------
\* Properties of the root finder specification

\* the call in progress, its MaxIterations clipped at 0, its passes through
\* the loop, and how far it has got: 0 before its first statement, 1 + Index
\* in the loop, past every Index once it has returned
RootFindCall == IF nw # Idle THEN nw ELSE IF bs # Idle THEN bs ELSE sc

RootFindMaxPasses ==
    IF RootFindCall.Parameters.MaxIterations > 0
    THEN RootFindCall.Parameters.MaxIterations
    ELSE 0

RootFindPasses ==
    IF nw # Idle THEN Cardinality(NewtonPasses) ELSE RootFindCall.passes

RootFindProgress ==
    CASE RootFindCall.pc = "call" -> 0
      [] RootFindCall.pc = "loop" -> 1 + RootFindCall.Index
      [] RootFindCall.pc = "done" -> 2 + RootFindMaxPasses

\* C13 as stated: at most MaxIterations passes (none when MaxIterations
\* <= 0) and at most MaxIterations + 3 calls of the function.
C13_EvaluationsWithinMaxIterationsPlus3 ==
    /\ RootFindPasses <= RootFindMaxPasses
    /\ Len(RootFindCall.evals) <= RootFindCall.Parameters.MaxIterations + 3

\* C13: Newton, Bisect and Secant return after at most MaxIterations passes
\* through the loop (none when MaxIterations <= 0) and at most
\* max(MaxIterations, 0) + 3 calls of the function: + 1 in Newton, + 2 in
\* Secant, + 3 in Bisect.  They terminate because every step either enters
\* the loop, completes a pass whose index is bounded by MaxIterations, or
\* returns.
C13_BoundedPassesAndTermination ==
    /\ [](/\ RootFindPasses <= RootFindMaxPasses
          /\ Len(RootFindCall.evals) <= RootFindMaxPasses + 3
          /\ nw # Idle => Len(nw.evals) <= RootFindMaxPasses + 1
          /\ sc # Idle => Len(sc.evals) <= RootFindMaxPasses + 2
          /\ RootFindCall.pc \in {"call", "loop", "done"}
          /\ RootFindCall.pc = "loop" =>
                 RootFindCall.Index <= RootFindMaxPasses)
    /\ [][RootFindProgress' > RootFindProgress]_vars

C13_Witness ==
    /\ bs.pc = "done"
    /\ bs.Parameters.MaxIterations = MaxBisectIterations
    /\ bs.passes = MaxBisectIterations
    /\ Len(bs.evals) = MaxBisectIterations + 3

\* ------------------------------------------------------------------------
\* Properties of the query specification

\* C14: on a HYPERBOLIC orbit DeltaTimeFromTrueAnomoly returns +infinity for
\* a true anomaly above pi - acos(1/e) or below -(pi - acos(1/e)), and the
\* query leaves every field of the Orbit as it was.
C14_HyperbolicOutOfRangeIsInfinite ==
    /\ [](LET e == orbit.mElements.Eccentricity
              Limit == Sub(PI, Acos(Div(One, e)))
          IN  (/\ tof.pc = "done"
               /\ orbit.mClassification = "HYPERBOLIC"
               /\ \/ Gt(tof.TrueAnomoly, Limit)
                  \/ Lt(tof.TrueAnomoly, Neg(Limit)))
              => tof.Result = PosInf)
    /\ [][tof.pc = "call" => orbit' = orbit]_vars

C14_Witness ==
    /\ tof.pc = "done"
    /\ orbit.mClassification = "HYPERBOLIC"
    /\ Lt(tof.TrueAnomoly, Neg(Sub(PI, Acos(Div(One, orbit.mElements.Eccentricity)))))
    /\ tof.Result = PosInf
    /\ orbit = initial

\* ------------------------------------------------------------------------
\* Properties of the conversion specification

\* C15: Newtonian2Kepler of a zero position or of a zero velocity returns
\* the default element set, every field 0 (the gravitational parameter too),
\* which ClassifyOrbit classifies INVALID.
C15_DegenerateStateGivesDefaultElements ==
    (/\ cv.pc = "elements"
     /\ \/ cv.Position = <<Zero, Zero, Zero>>
        \/ cv.Velocity = <<Zero, Zero, Zero>>)
    => /\ \A f \in DOMAIN cv.Result : cv.Result[f] = Zero
       /\ DOMAIN cv.Result = DOMAIN DefaultElements
       /\ ClassifyOrbit(cv.Result) = "INVALID"

C15_Witness ==
    /\ cv.pc = "elements"
    /\ cv.Position # <<Zero, Zero, Zero>>
    /\ cv.Velocity = <<Zero, Zero, Zero>>
    /\ cv.GravitationalParameter = Whole(4)
    /\ cv.Result.GravitationalParameter = Zero

\* C16: Kepler2Newtonian of elements that fail IsValid returns the default
\* state: zero position, zero velocity and a light time of 0.
C16_InvalidElementsGiveDefaultState ==
    (cv.pc = "state" /\ ~IsValid(cv.Elements))
    => /\ cv.Result.Pos = <<Zero, Zero, Zero>>
       /\ cv.Result.Vel = <<Zero, Zero, Zero>>
       /\ cv.Result.LightTime = Zero

C16_Witness ==
    /\ cv.pc = "state"
    /\ ~IsValid(cv.Elements)
    /\ cv.Elements.Eccentricity = Rat(1, 2)
    /\ cv.Elements.TrueAnomoly = PiMul(1, 2)
    /\ cv.Elements.SemiParameter = One
    /\ cv.Result = DefaultEphemerisState

\* C17: in the result of Newtonian2Kepler, Node, ArgumentPerigee and
\* ArgumentLatitude are 0 when the magnitude of the node vector is zero, and
\* TrueAnomoly and TrueLongitudeOfPeriapsis are 0 when the eccentricity is 0.
C17_UndefinedAnglesStayZero ==
    cv.pc = "elements" =>
        LET NodeVector == Cross(<<Zero, Zero, One>>,
                                Cross(cv.Position, cv.Velocity))
        IN  /\ Eq(Sqrt(NormSquared(NodeVector)), Zero)
               => /\ cv.Result.Node = Zero
                  /\ cv.Result.ArgumentPerigee = Zero
                  /\ cv.Result.ArgumentLatitude = Zero
            /\ Eq(cv.Result.Eccentricity, Zero)
               => /\ cv.Result.TrueAnomoly = Zero
                  /\ cv.Result.TrueLongitudeOfPeriapsis = Zero

C17_Witness ==
    /\ cv.pc = "elements"
    /\ cv.Result.GravitationalParameter = One
    /\ Gt(cv.Result.SemiMajorAxis, Zero)
    /\ Eq(cv.Result.Eccentricity, Zero)
    /\ cv.Result.Inclination = PI
    /\ NormSquared(Cross(<<Zero, Zero, One>>,
                         Cross(cv.Position, cv.Velocity))) = Zero
    /\ cv.Result.Node = Zero
    /\ cv.Result.TrueAnomoly = Zero
    /\ cv.Result.TrueLongitude = PiMul(1, 2)

\* the elements two calls of Kepler2Newtonian must share: the classification,
\* the four non-angular elements, and the angular elements of the regime
SameMeaningfulElements(E1, E2) ==
    LET Classification == ClassifyOrbit(E1)
        Same(Fields) == \A f \in Fields : E1[f] = E2[f]
    IN  /\ Classification # "INVALID"
        /\ ClassifyOrbit(E2) = Classification
        /\ Same({"SemiParameter", "Eccentricity", "Inclination",
                 "GravitationalParameter"})
        /\ CASE Classification = "CIRCULAR_EQUATORIAL" ->
                    Same({"TrueLongitude"})
             [] Classification = "CIRCULAR_INCLINED" ->
                    Same({"Node", "ArgumentLatitude"})
             [] Classification = "ELLIPTICAL_EQUATORIAL" ->
                    Same({"TrueLongitudeOfPeriapsis", "TrueAnomoly"})
             [] OTHER -> Same({"Node", "ArgumentPerigee", "TrueAnomoly"})

\* C18: two calls of Kepler2Newtonian whose arguments have the same
\* classification, the same SemiParameter, Eccentricity, Inclination and
\* GravitationalParameter, and the same angular elements of their regime
\* return the same position, velocity and light time, whatever their other
\* angular elements are.
C18_ResultDependsOnRegimeElementsOnly ==
    (cv.pc = "state" /\ SameMeaningfulElements(cv.Elements, cv.Other))
    => /\ cv.Result.Pos = cv.OtherResult.Pos
       /\ cv.Result.Vel = cv.OtherResult.Vel
       /\ cv.Result.LightTime = cv.OtherResult.LightTime

C18_Witness ==
    /\ cv.pc = "state"
    /\ ClassifyOrbit(cv.Elements) = "CIRCULAR_INCLINED"
    /\ SameMeaningfulElements(cv.Elements, cv.Other)
    /\ \A f \in {"ArgumentPerigee", "TrueLongitudeOfPeriapsis",
                 "TrueAnomoly", "TrueLongitude"} :
          cv.Elements[f] # cv.Other[f]
    /\ cv.Elements.Node = PI
    /\ cv.Elements.ArgumentLatitude = PiMul(1, 2)
    /\ cv.Result = cv.OtherResult
    /\ cv.Result.Pos # <<Zero, Zero, Zero>>

\* ------------------------------------------------------------------------
\* The cached period

\* C19: the cached period of an Orbit is CalculatePeriod of its elements:
\* 2 pi sqrt(a^3 / mu) when they are valid and closed, +infinity when not,
\* closed elements with SemiMajorAxis <= 0 included.
C19_CachedPeriodIsCalculatePeriod ==
    /\ orbit.mPeriod = CalculatePeriod(orbit.mElements)
    /\ (IsValid(orbit.mElements) /\ IsClosed(orbit.mElements))
       => orbit.mPeriod =
              Mul(TwoPi, Sqrt(Div(Cube(orbit.mElements.SemiMajorAxis),
                                  orbit.mElements.GravitationalParameter)))
    /\ ~(IsValid(orbit.mElements) /\ IsClosed(orbit.mElements))
       => orbit.mPeriod = PosInf

\* ------------------------------------------------------------------------
\* Properties of the threads specification

\* no call of Update is between its first and its last statement
Quiescent == \A t \in Threads : th.calls[t].pc \in {"idle", "done"}

\* the mean anomaly, the eccentric anomaly, the true anomaly and the radius
\* derive from the DeltaTime of one call (or all from the constructor)
SameDeltaTime ==
    \A f \in DOMAIN th.from : th.from[f] = th.from.mMeanAnomoly

\* C20: when the callers serialize their Update calls on one non-circular
\* Orbit, the
\* Orbit a caller finds between calls has its mean anomaly, eccentric
\* anomaly, true anomaly and radius derived from one DeltaTime, the radius
\* being that of its elements.  (That interleaved calls reach a state where
\* they are not is the witness.)
C20_SerializedUpdatesAreConsistent ==
    (th.serialized /\ Quiescent /\ ~IsCircular(orbit.mElements))
    => /\ SameDeltaTime
       /\ orbit.mRadius = CalculateRadius(orbit.mElements)
       /\ \A t \in Threads : th.calls[t].pc = "done" => th.from.mRadius # 0

C20_Witness ==
    /\ ~th.serialized
    /\ \A t \in Threads : th.calls[t].pc = "done"
    /\ ~IsCircular(orbit.mElements)
    /\ orbit.mClassification = "ELLIPTICAL_EQUATORIAL"
    /\ ~SameDeltaTime
    /\ th.from.mMeanAnomoly = 1
    /\ th.from.mEccentricAnomoly = 2

\* ------------------------------------------------------------------------
\* Properties of the round trip through the two conversions

\* every component of U within 1e-8 of that of V, relative to the norm of V
IsVector3Near(U, V) ==
    \A i \in 1..3 :
        Le(Mul(Whole(100000000), Abs(Sub(U[i], V[i]))), Sqrt(NormSquared(V)))

\* C21: for a position and a velocity that are non-zero and not parallel,
\* and a positive gravitational parameter,
\* Kepler2Newtonian(Newtonian2Kepler(Position, Velocity, mu)) reproduces the
\* position and the velocity to within 1e-8 relative error, in every regime.
C21_RoundTripReproducesState ==
    (/\ cv.pc = "roundtrip"
     /\ ~IsDegenerate(Sqrt(NormSquared(cv.Position)),
                      NormSquared(cv.Velocity))
     /\ Cross(cv.Position, cv.Velocity) # <<Zero, Zero, Zero>>
     /\ Gt(cv.GravitationalParameter, Zero))
    => /\ IsVector3Near(cv.Result.Pos, cv.Position)
       /\ IsVector3Near(cv.Result.Vel, cv.Velocity)

\* ------------------------------------------------------------------------
\* Properties of the anomaly specification

\* C22: for every eccentricity in [0, 0.99] and every true anomaly in
\* (-pi, pi), EccentricToTrueAnomoly(TrueToEccentricAnomoly(nu, e), e) is
\* nu, with the sign of nu when nu < 0.
C22_AnomolyRoundTripRecoversTrueAnomoly ==
    (/\ fn.pc = "done"
     /\ Ge(fn.Eccentricity, Zero) /\ Le(fn.Eccentricity, Rat(99, 100))
     /\ Gt(fn.TrueAnomoly, Neg(PI)) /\ Lt(fn.TrueAnomoly, PI))
    => fn.Result = fn.TrueAnomoly

\* ------------------------------------------------------------------------
\* Properties of two queries that differ by whole revolutions

\* the angles x and y differ by a multiple of 2 pi
SameAngle(x, y) ==
    LET D == Sub(x, y) IN IsPiMultiple(D) /\ D[3] = 1 /\ D[2] % 2 = 0

\* the mean anomaly at the true anomaly x is m: decided where m is a
\* multiple of pi (the mean anomaly is 0 only at 0, pi only at pi, and lies
\* in (-pi, pi])
MeanAnomolyIs(x, m) ==
    IF m = Zero \/ m = PI THEN SameAngle(x, m)
    ELSE IF IsPiMultiple(m) /\ m[3] = 1 THEN FALSE
    ELSE OutOfDomain

\* B - A = Time for two results A and B of DeltaTimeFromTrueAnomoly on one
\* orbit, either of which may hold an unevaluated mean anomaly
DiffersBy(A, B, Time) ==
    IF ~IsUnevaluated(A) /\ ~IsUnevaluated(B) THEN Sub(B, A) = Time
    ELSE IF IsUnevaluated(A) /\ IsUnevaluated(B)
    THEN (IF Mul(A[1], Sub(B[2], A[2])) = Time THEN SameAngle(B[3], A[3])
          ELSE OutOfDomain)
    ELSE IF IsUnevaluated(B)
    THEN MeanAnomolyIs(B[3], Sub(Div(Add(A, Time), B[1]), B[2]))
    ELSE MeanAnomolyIs(A[3], Sub(Div(Sub(B, Time), A[1]), A[2]))

\* C23: on a valid elliptical orbit, two target true anomalies that differ
\* by k full revolutions (2 pi k, k a positive integer), both ahead of the
\* current true anomaly, give DeltaTimeFromTrueAnomoly results that differ by
\* exactly k orbital periods.
C23_RevolutionsAddPeriods ==
    (/\ tof.pc = "both"
     /\ orbit.mClassification \in
            {"ELLIPTICAL_EQUATORIAL", "ELLIPTICAL_INCLINED"}
     /\ Gt(tof.TrueAnomoly, orbit.mElements.TrueAnomoly))
    => DiffersBy(tof.Result, tof.OtherResult,
                 Mul(Whole(tof.Revolutions), orbit.mPeriod))

\* ------------------------------------------------------------------------
\* Properties of an Update by the time of flight to a target

\* C24: DeltaTimeFromTrueAnomoly is the inverse of Update: on a valid orbit,
\* after Update(DeltaTimeFromTrueAnomoly(nu)) for a target nu with a finite
\* time of flight, TrueAnomoly is nu modulo 2 pi on an orbit that is not
\* circular, and the angular position element of a circular orbit
\* (TrueLongitude or ArgumentLatitude) is nu modulo 2 pi.
C24_UpdateByTimeOfFlightReachesTarget ==
    (tof.pc = "moved" /\ orbit.mClassification # "INVALID")
    => IF IsCircular(orbit.mElements)
       THEN \/ SameAngle(orbit.mElements.TrueLongitude, tof.TrueAnomoly)
            \/ SameAngle(orbit.mElements.ArgumentLatitude, tof.TrueAnomoly)
       ELSE SameAngle(orbit.mElements.TrueAnomoly, tof.TrueAnomoly)

\* ------------------------------------------------------------------------
\* Properties of the divisions of Newtonian2Kepler

\* C25: for a non-zero position and a non-zero velocity Newtonian2Kepler
\* never divides by zero, whether the angular momentum is zero, the
\* eccentricity is zero with a non-zero node vector, or the mechanical
\* energy is zero.
C25_NoDivisionByZero ==
    (/\ cv.pc = "elements"
     /\ cv.Position # <<Zero, Zero, Zero>>
     /\ cv.Velocity # <<Zero, Zero, Zero>>)
    => Zero \notin cv.Divisors

\* ------------------------------------------------------------------------
\* Properties of the classification of converted states

\* C26: the elements Newtonian2Kepler produces for a state on a hyperbolic
\* trajectory (positive mechanical energy, eccentricity above 1) are
\* classified HYPERBOLIC by ClassifyOrbit, so the Orbit built from such a
\* state is not INVALID.
C26_HyperbolicStateIsClassifiedHyperbolic ==
    (/\ cv.pc = "elements"
     /\ ~IsDegenerate(Sqrt(NormSquared(cv.Position)),
                      NormSquared(cv.Velocity))
     /\ Gt(Sub(Mul(Rat(1, 2), NormSquared(cv.Velocity)),
               Div(cv.GravitationalParameter,
                   Sqrt(NormSquared(cv.Position)))), Zero)
     /\ Gt(cv.Result.Eccentricity, One))
    => ClassifyOrbit(cv.Result) = "HYPERBOLIC"

\* ------------------------------------------------------------------------
\* Properties of an Update by no time

\* C27: Update(0) is the identity: on an Orbit of any classification a call
\* with DeltaTime == 0 leaves every element and every cached field as it was.
C27_UpdateByZeroIsIdentity ==
    (nUpdates > 0 /\ lastDt = Zero) => orbit = prev

\* ------------------------------------------------------------------------
\* Properties of the halving loop of Bisect

\* 2^n
RECURSIVE PowerOfTwo(_)
PowerOfTwo(n) == IF n = 0 THEN 1 ELSE 2 * PowerOfTwo(n - 1)

\* C28: once Bisect has entered its halving loop, at the start of every pass
\* X1 < X2, f(X1) and f(X2) are non-zero with opposite signs, [X1, X2] lies
\* inside the interval of the call, and X2 - X1 is the width of that interval
\* divided by 2^Index; the X Bisect then returns lies inside the interval of
\* the call.
C28_BisectKeepsBracket ==
    /\ bs.pc = "loop" =>
         /\ Lt(bs.X1, bs.X2)
         /\ bs.F1 = Function(bs.Function, bs.X1)
         /\ bs.F2 = Function(bs.Function, bs.X2)
         /\ Lt(Mul(bs.F1, bs.F2), Zero)
         /\ Le(bs.Lower, bs.X1) /\ Le(bs.X2, bs.Upper)
         /\ Mul(Sub(bs.X2, bs.X1), Whole(PowerOfTwo(bs.Index)))
                = Sub(bs.Upper, bs.Lower)
    /\ (bs.pc = "done" /\ Len(bs.evals) >= 3) =>
         /\ Le(bs.Lower, bs.Result.X)
         /\ Le(bs.Result.X, bs.Upper)

C28_Witness ==
    /\ bs.pc = "loop"
    /\ bs.Index = 1
    /\ bs.Index < bs.Parameters.MaxIterations
    /\ Gt(bs.X1, bs.Lower)
    /\ bs.X2 = bs.Upper
    /\ Mul(Sub(bs.X2, bs.X1), Two) = Sub(bs.Upper, bs.Lower)

\* ------------------------------------------------------------------------
\* Properties of the exit codes of the three root finders

\* C29: no call of Newton, Bisect or Secant returns with ExitCode
\* OTHER_ERROR, the default of RootFinderResult: every return sets SUCCESS,
\* MAX_ITERATIONS_EXCEEDED, ILL_POSED, INVALID_PARAMETERS or
\* INVALID_INTERVAL, ILL_POSED being set by Secant only and INVALID_INTERVAL
\* by Bisect only.
C29_EveryReturnSetsExitCode ==
    LET Common == {"SUCCESS", "MAX_ITERATIONS_EXCEEDED", "INVALID_PARAMETERS"}
    IN  /\ nw.pc = "done" => nw.Result.ExitCode \in Common
        /\ bs.pc = "done" =>
               bs.Result.ExitCode \in Common \cup {"INVALID_INTERVAL"}
        /\ sc.pc = "done" => sc.Result.ExitCode \in Common \cup {"ILL_POSED"}

C29_Witness ==
    /\ bs.pc = "done"
    /\ bs.Result.ExitCode = "MAX_ITERATIONS_EXCEEDED"
    /\ bs.Index = bs.Parameters.MaxIterations

\* ------------------------------------------------------------------------
\* Properties of the split specification

\* C30: HString::Split terminates and returns an array, for every string and
\* every separator, the empty separator on a non-empty string included.
C30_SplitTerminates == <>(fn.pc = "done")

=============================================================================
